---- MODULE Spec2Model ----
(***************************************************************************)
(* Grading-and-ranking engine of the agentao / taogod validator.           *)
(*                                                                         *)
(* The module holds one specification per part of the program:             *)
(*   SpecValidator  - Validator.forward (src/neurons/validator.py)         *)
(*   SpecGrader, SpecFloat - FloatGrader.grade and rank_elo                *)
(*   SpecTrueSkill, SpecTrueSkillSteady, SpecScenario - TrueSkillGrader    *)
(*   SpecCombine, SpecDecay, SpecStrip, SpecStripAdded, SpecLlmEval,       *)
(*   SpecCompare, SpecBlacklist - functions called on their own            *)
(*   SpecPool       - calculate_rewards of the synthetic tests             *)
(*                                                                         *)
(* Numbers: rewards of the validator are in thousandths; rubric fields are *)
(* in units of 1/Unit; composite scores are exact rationals [n, d].        *)
(***************************************************************************)
EXTENDS Integers, Sequences, FiniteSets, TLC

VARIABLES
    \* ---- Validator (src/neurons/validator.py)
    step,           \* self.step, restored by load_state()
    v_pc,           \* "idle" (between forward passes) or "loop" (inside the task loop)
    miner_uids,     \* forward's miner_uids list
    task_types,     \* the task types the loop still has to run
    score_updates,  \* the update_scores calls made by the last step, in call order
    v_iter,         \* what the last task iteration did (queried uids, responses, outcome)
    \* ---- FloatGrader / EloGrader (src/agentao/validator/graders)
    g_pc,           \* "idle", "float_done", "elo_play" or "elo_done"
    fg_call,        \* the last FloatGrader.grade call: its submissions and what it returned
    elo_subs,       \* rank_elo: len(submissions)
    elo_players,    \* rank_elo: local_elo.players, player index -> rating (thousandths)
    elo_matches,    \* rank_elo: the matches generate_matches returned
    elo_next,       \* rank_elo: position of the next match to play
    elo_log,        \* rank_elo: the EloRating.update_ratings calls of the last match
    elo_output,     \* rank_elo: the parsed answer of the last oracle call in a
                    \* one-element sequence, the empty sequence if there is none
    elo_result,     \* rank_elo: what the call returned
    \* ---- TrueSkillGrader (src/agentao/validator/graders/trueskill_grader.py)
    t_pc,           \* "idle" or "graded"
    ratings,        \* self.ratings: the dict's items <<hotkey, Rating>> in insertion order
    num_runs,       \* self.num_runs
    ts_rounds,      \* number of grade calls made so far
    ts_call,        \* the last TrueSkillGrader.grade call: its input and what it did
    \* ---- helper functions (score combiner, decay, comment stripping)
    h_pc,           \* "idle" or "called"
    h_call,         \* the last helper call: [fn, arg, out]
    \* ---- calculate_rewards of the synthetic tests (src/neurons/test_vali.py)
    p_pc,           \* "idle", "running" (inside the thread pool), "returned" or "raised"
    tasks,          \* the tasks list: what processing each response does
    futures,        \* per task: whether its worker has finished, and its result
    finish_order,   \* task positions in the order in which the workers finished
    syn_tests_arr   \* the array calculate_rewards returned

vVars == <<step, v_pc, miner_uids, task_types, score_updates, v_iter>>

gVars == <<g_pc, fg_call, elo_subs, elo_players, elo_matches, elo_next, elo_log, elo_output,
          elo_result>>

tVars == <<t_pc, ratings, num_runs, ts_rounds, ts_call>>

hVars == <<h_pc, h_call>>

pVars == <<p_pc, tasks, futures, finish_order, syn_tests_arr>>

vars == <<vVars, gVars, tVars, hVars, pVars>>

(***************************************************************************)
(* Generic helpers                                                         *)
(***************************************************************************)
Range(s) == {s[i] : i \in DOMAIN s}

Min(S) == CHOOSE x \in S : \A y \in S : x <= y

RECURSIVE SetToSeq(_)
\* the elements of a finite set of integers in ascending order
SetToSeq(S) == IF S = {} THEN <<>> ELSE <<Min(S)>> \o SetToSeq(S \ {Min(S)})

RECURSIVE SeqSum(_)
SeqSum(s) == IF s = <<>> THEN 0 ELSE Head(s) + SeqSum(Tail(s))

\* [x] * n
Repeat(x, n) == [i \in 1..n |-> x]

\* no grade call made yet: FloatGrader and EloGrader keep no state between calls
NoFloatCall == [subs |-> <<>>, outcome |-> "none", graded |-> <<>>, scores |-> <<>>]

NoEloResult == [kind |-> "none", scores |-> <<>>]

GIdle ==
    /\ g_pc = "idle"
    /\ fg_call = NoFloatCall
    /\ elo_subs = 0
    /\ elo_players = <<>>
    /\ elo_matches = <<>>
    /\ elo_next = 1
    /\ elo_log = <<>>
    /\ elo_output = <<>>
    /\ elo_result = NoEloResult

NoTsCall ==
    [subs |-> <<>>, outcome |-> "none", scores |-> <<>>, pre |-> <<>>, mid |-> <<>>,
     groups |-> <<>>, ranks |-> <<>>, updates |-> 0, result |-> <<>>]

\* TrueSkillGrader.__init__
TIdle ==
    /\ t_pc = "idle"
    /\ ratings = <<>>
    /\ num_runs = 0
    /\ ts_rounds = 0
    /\ ts_call = NoTsCall

NoHelperCall == [fn |-> "none", arg |-> <<>>, out |-> <<>>]

\* no helper function has been called
HIdle ==
    /\ h_pc = "idle"
    /\ h_call = NoHelperCall

\* calculate_rewards of the synthetic tests has not been called
PIdle ==
    /\ p_pc = "idle"
    /\ tasks = <<>>
    /\ futures = <<>>
    /\ finish_order = <<>>
    /\ syn_tests_arr = <<>>

(***************************************************************************)
(* Validator.forward                                                       *)
(***************************************************************************)
\* bound: number of uids in the metagraph
NumUids == 3

\* NO_MINER_RESPONSE_SCORE = 0.005, in thousandths
NO_MINER_RESPONSE_SCORE == 5

\* self.step < 50 selects [LabelledIssueTask], otherwise both task types
OPEN_ISSUE_STEP == 50

Uids == 0 .. (NumUids - 1)

\* rewards calculate_rewards can compute for one patch, in thousandths
RewardValues == {0, 500, 1000}

\* a miner's response: falsy response object, response.patch None, response.patch "",
\* or a response that carries a non-empty patch
ResponseKinds == {"falsy", "patch_none", "patch_empty", "valid"}

NoIter == [status |-> "none", task |-> "none", queried |-> <<>>, kinds |-> <<>>,
           working |-> <<>>, passed |-> <<>>, rewards |-> <<>>, calc |-> "none"]

\* task_types = [LabelledIssueTask] if self.step < 50 else [LabelledIssueTask, OpenIssueTask]
TaskTypesFor(s) ==
    IF s < OPEN_ISSUE_STEP THEN <<"LabelledIssueTask">>
    ELSE <<"LabelledIssueTask", "OpenIssueTask">>

\* TaskType.LABELLED_ISSUE if task_type == LabelledIssueTask else TaskType.OPEN_ISSUE
TaskTypeOf(task) == IF task = "LabelledIssueTask" THEN "LABELLED_ISSUE" ELSE "OPEN_ISSUE"

\* one call self.update_scores(rewards, uids, task_type); scalar marks a 0-d rewards array
UpdateScores(log, rewards, scalar, uids, task, site) ==
    Append(log, [rewards |-> rewards, scalar |-> scalar, uids |-> uids,
                 task |-> task, site |-> site])

\* positions of the responses whose patch is collected in finished_responses
\* (lines 326-335: not falsy, patch not in [None, ""])
WorkingPositions(kinds) ==
    SetToSeq({i \in DOMAIN kinds : kinds[i] = "valid"})

\* working_miner_uids: the uid found for each valid response, in response order
WorkingMinerUids(uids, kinds) ==
    [j \in DOMAIN WorkingPositions(kinds) |-> uids[WorkingPositions(kinds)[j]]]

\* bad_miner_uids = [uid for uid in miner_uids if uid not in working_miner_uids]
BadMinerUids(uids, working) ==
    SelectSeq(uids, LAMBDA u : u \notin Range(working))

\* handle_labelled_issue_response: calculate_rewards raises -> return without any
\* update; otherwise one update_scores call for the working miners
HandleLabelledIssueResponse(log, calc, rewards, working) ==
    IF calc = "raised" THEN log
    ELSE UpdateScores(log, rewards, FALSE, working, "LABELLED_ISSUE", "reward")

\* handle_open_issue_response: picks the best submission and may open a PR;
\* it makes no update_scores call
HandleOpenIssueResponse(log, working) == log

\* lines 347-356: the penalty update for the miners that gave no valid patch
PenaltyUpdate(log, uids, working, task) ==
    UpdateScores(log,
                 Repeat(NO_MINER_RESPONSE_SCORE, Len(BadMinerUids(uids, working))),
                 FALSE, BadMinerUids(uids, working), TaskTypeOf(task), "penalty")

\* assign_pending_rewards_scores (lines 211-251): request fails or no pending
\* rewards -> nothing; otherwise rewards = np.ones_like(len(pending_rewards)), a 0-d
\* array holding 1, for the pending uids, then zeros for the miners without open PR
AssignPendingRewardsScores(log, uids, outcome, pending) ==
    IF outcome # "ok" \/ pending = <<>> THEN log
    ELSE UpdateScores(
             UpdateScores(log, <<1000>>, TRUE, pending, "OPEN_ISSUE", "pending"),
             Repeat(0, Len(BadMinerUids(uids, pending))), FALSE,
             BadMinerUids(uids, pending), "OPEN_ISSUE", "no_open_pr")

\* the validator before its first forward pass, whatever step load_state() restored
VIdle ==
    /\ v_pc = "idle"
    /\ miner_uids = <<>>
    /\ task_types = <<>>
    /\ score_updates = <<>>
    /\ v_iter = NoIter

VInit ==
    /\ step \in {0, OPEN_ISSUE_STEP}
    /\ VIdle
    /\ GIdle
    /\ TIdle
    /\ HIdle
    /\ PIdle

\* forward, lines 262-272: no miner available -> return
ForwardNoMiners ==
    /\ v_pc = "idle"
    /\ miner_uids' = <<>>
    /\ task_types' = <<>>
    /\ score_updates' = <<>>
    /\ v_iter' = NoIter
    /\ UNCHANGED <<step, v_pc, gVars, tVars, hVars, pVars>>

\* forward, lines 262-280: the available miners, the pending rewards, the task types
ForwardStart ==
    /\ v_pc = "idle"
    /\ \E avail \in (SUBSET Uids) \ {{}} :
       \E outcome \in {"ok", "error"} :
       \E pend \in SUBSET Uids :
          /\ miner_uids' = SetToSeq(avail)
          /\ score_updates' =
                 AssignPendingRewardsScores(<<>>, SetToSeq(avail), outcome, SetToSeq(pend))
    /\ task_types' = TaskTypesFor(step)
    /\ v_iter' = NoIter
    /\ v_pc' = "loop"
    /\ UNCHANGED <<step, gVars, tVars, hVars, pVars>>

\* one iteration of the task loop whose task could not be fetched (lines 303-306)
TaskFetchFails ==
    /\ v_pc = "loop"
    /\ task_types # <<>>
    /\ v_iter' = [NoIter EXCEPT !.status = "fetch_failed", !.task = Head(task_types)]
    /\ v_pc' = "idle"
    /\ task_types' = <<>>
    /\ score_updates' = <<>>
    /\ UNCHANGED <<step, miner_uids, gVars, tVars, hVars, pVars>>

\* one iteration of the task loop in which the miners are queried (lines 308-358)
TaskIteration ==
    /\ v_pc = "loop"
    /\ task_types # <<>>
    /\ \E kinds \in [DOMAIN miner_uids -> ResponseKinds] :
       LET task == Head(task_types)
           working == WorkingMinerUids(miner_uids, kinds)
       IN IF Len(working) = 0
          THEN \* "No miners responded. Exiting forward pass..."
               /\ v_iter' = [status |-> "no_responders", task |-> task,
                             queried |-> miner_uids, kinds |-> kinds,
                             working |-> working, passed |-> <<>>,
                             rewards |-> <<>>, calc |-> "none"]
               /\ v_pc' = "idle"
               /\ task_types' = <<>>
               /\ score_updates' = <<>>
          ELSE \E calc \in {"ok", "raised"} :
               \E rewards \in [DOMAIN working -> RewardValues] :
                  /\ (calc = "raised" \/ task = "OpenIssueTask")
                        => rewards = [j \in DOMAIN working |-> 0]
                  /\ task = "OpenIssueTask" => calc = "ok"
                  /\ score_updates' =
                        PenaltyUpdate(
                            IF task = "LabelledIssueTask"
                            THEN HandleLabelledIssueResponse(<<>>, calc, rewards, working)
                            ELSE HandleOpenIssueResponse(<<>>, working),
                            miner_uids, working, task)
                  /\ v_iter' = [status |-> "done", task |-> task,
                                queried |-> miner_uids, kinds |-> kinds,
                                working |-> working,
                                passed |-> IF task = "LabelledIssueTask"
                                           THEN WorkingPositions(kinds) ELSE <<>>,
                                rewards |-> rewards,
                                calc |-> IF task = "LabelledIssueTask"
                                         THEN calc ELSE "none"]
                  /\ task_types' = Tail(task_types)
                  /\ v_pc' = IF Tail(task_types) = <<>> THEN "idle" ELSE "loop"
    /\ UNCHANGED <<step, miner_uids, gVars, tVars, hVars, pVars>>

VNext ==
    \/ ForwardNoMiners
    \/ ForwardStart
    \/ TaskFetchFails
    \/ TaskIteration

SpecValidator == VInit /\ [][VNext]_vars

(***************************************************************************)
(* Claims about Validator.forward (checked under SpecValidator)            *)
(***************************************************************************)
\* the task iteration has queried the miners (the task was fetched)
MinersQueried == v_iter.status \in {"no_responders", "done"}

\* the places <<call, position>> of the last step's update_scores calls that score
\* uid for the iteration's task
ScoreSlots(uid) ==
    {c \in (DOMAIN score_updates) \X (1 .. NumUids) :
        /\ score_updates[c[1]].site \in {"reward", "penalty"}
        /\ score_updates[c[1]].task = TaskTypeOf(v_iter.task)
        /\ c[2] \in DOMAIN score_updates[c[1]].uids
        /\ score_updates[c[1]].uids[c[2]] = uid}

SlotReward(c) == score_updates[c[1]].rewards[c[2]]

\* the reward calculate_rewards computed for the response at position i
ComputedReward(i) ==
    LET j == CHOOSE k \in DOMAIN v_iter.working : v_iter.working[k] = v_iter.queried[i]
    IN v_iter.rewards[j]

\* C1: in every task iteration in which the miners were queried, each queried uid
\* receives exactly one score update for the task: its computed reward when it
\* returned a valid patch, NO_MINER_RESPONSE_SCORE otherwise.
C1_EveryQueriedMinerScoredOnce ==
    MinersQueried =>
        \A i \in DOMAIN v_iter.queried :
            /\ Cardinality(ScoreSlots(v_iter.queried[i])) = 1
            /\ \A c \in ScoreSlots(v_iter.queried[i]) :
                  SlotReward(c) = IF v_iter.kinds[i] = "valid"
                                  THEN ComputedReward(i)
                                  ELSE NO_MINER_RESPONSE_SCORE

\* C4: a queried miner whose response carries patch None or "" receives exactly
\* NO_MINER_RESPONSE_SCORE for the task, whatever the other miners returned, and
\* its patch is not passed to reward calculation.
C4_EmptyPatchGetsMinimumReward ==
    MinersQueried =>
        \A i \in DOMAIN v_iter.queried :
            v_iter.kinds[i] \in {"patch_none", "patch_empty"} =>
                /\ Cardinality(ScoreSlots(v_iter.queried[i])) = 1
                /\ \A c \in ScoreSlots(v_iter.queried[i]) :
                      SlotReward(c) = NO_MINER_RESPONSE_SCORE
                /\ i \notin Range(v_iter.passed)

(***************************************************************************)
(* Patch sanitization: preprocess_patch and remove_comments                *)
(* (src/agentao/validator/graders/helpers.py)                              *)
(*                                                                         *)
(* A patch is the sequence of its lines (patch.splitlines()), a line the   *)
(* sequence of its characters; the empty string is <<>>.                   *)
(***************************************************************************)
Whitespace == {" ", "\t"}

StartsWith(line, prefix) ==
    /\ Len(line) >= Len(prefix)
    /\ \A i \in DOMAIN prefix : line[i] = prefix[i]

\* comment_line_pattern = ^\+\s*#.* : a '+', then blanks, then '#'
IsCommentLine(line) ==
    /\ StartsWith(line, <<"+">>)
    /\ \E i \in 2 .. Len(line) :
          /\ line[i] = "#"
          /\ \A j \in 2 .. (i - 1) : line[j] \in Whitespace

\* faulty variant: the text after the first '#' is removed, the '#' is kept
StripInlineCommentKeepsMarker(line) ==
    IF \E i \in DOMAIN line : line[i] = "#"
    THEN SubSeq(line, 1, Min({i \in DOMAIN line : line[i] = "#"}))
    ELSE line

\* inline_comment_pattern.sub("", line): the line up to its first '#'
StripInlineComment(line) ==
    IF \E i \in DOMAIN line : line[i] = "#"
    THEN SubSeq(line, 1, Min({i \in DOMAIN line : line[i] = "#"}) - 1)
    ELSE line

RECURSIVE RStrip(_)
\* str.rstrip()
RStrip(line) ==
    IF line # <<>> /\ line[Len(line)] \in Whitespace
    THEN RStrip(SubSeq(line, 1, Len(line) - 1))
    ELSE line

RECURSIVE CleanedLines(_)
\* the loop of remove_comments: cleaned_lines
CleanedLines(lines) ==
    IF lines = <<>> THEN <<>>
    ELSE LET line == Head(lines)
         IN (IF StartsWith(line, <<"+">>)
             THEN IF IsCommentLine(line) THEN <<>>
                  ELSE <<RStrip(StripInlineComment(line))>>
             ELSE <<line>>) \o CleanedLines(Tail(lines))

\* "\n".join(lines), again as the sequence of the lines of the joined string
\* (str.splitlines): the join puts no newline after the last line, so a last line
\* that is empty leaves a string ending where the line before it ends.  Joining
\* nothing, or one empty line, gives the empty string.
JoinLines(lines) ==
    IF lines # <<>> /\ lines[Len(lines)] = <<>>
    THEN SubSeq(lines, 1, Len(lines) - 1)
    ELSE lines

\* remove_comments of src/agentao/validator/graders/helpers.py
RemoveComments(patch) == JoinLines(CleanedLines(patch))

\* remove_comments of src/taogod/validator/grade_output.py: the same loop
RemoveCommentsGradeOutput(patch) == JoinLines(CleanedLines(patch))

\* remove_comments of src/taogod/code_compare.py: the same loop
RemoveCommentsCodeCompare(patch) == JoinLines(CleanedLines(patch))

\* what git needs to accept a patch at all: a file header ("--- ..." or "diff ...");
\* input without one ends "No valid patches in input" with a non-zero exit
HasDiffHeader(patch) ==
    \E i \in DOMAIN patch :
        \/ StartsWith(patch[i], <<"-", "-", "-">>)
        \/ StartsWith(patch[i], <<"d", "i", "f", "f">>)

\* git apply --check (helpers.py:51-60): returncode == 0; repo_says is the verdict of
\* the checkout for a well-formed patch
GitApplyCheck(patch, repo_says) == HasDiffHeader(patch) /\ repo_says = "ok"

\* faulty variant: the cleaner oracle is called before the dry-run apply is looked at
PreprocessPatchCleanerFirst(patch, env) ==
    IF env.cleaner = "raise"
    THEN [kind |-> "raised", patch |-> <<>>, calls |-> <<"cleaner">>]
    ELSE IF ~GitApplyCheck(patch, env.apply) \/ patch = <<>>
    THEN [kind |-> "ok", patch |-> <<>>, calls |-> <<"cleaner">>]
    ELSE [kind |-> "ok", patch |-> RemoveComments(patch), calls |-> <<"cleaner">>]

\* preprocess_patch(repo_path, patch) under the outcomes env.apply of the dry-run and
\* env.cleaner of the cleaner oracle call: [kind, patch, calls]
\* kind "ok": the returned string is patch; kind "raised": the cleaner call raised
PreprocessPatch(patch, env) ==
    IF ~GitApplyCheck(patch, env.apply)
    THEN [kind |-> "ok", patch |-> <<>>, calls |-> <<>>]
    ELSE IF patch = <<>>
    THEN [kind |-> "ok", patch |-> <<>>, calls |-> <<>>]
    ELSE IF env.cleaner = "raise"
    THEN [kind |-> "raised", patch |-> <<>>, calls |-> <<"cleaner">>]
    ELSE [kind |-> "ok", patch |-> RemoveComments(patch), calls |-> <<"cleaner">>]

(***************************************************************************)
(* FloatGrader (src/agentao/validator/graders/float_grader.py)             *)
(***************************************************************************)
\* the value 1.0 of a rubric field: fields are in hundredths
One == 100

\* the weights of _compute_overall_score, in hundredths
DYNAMIC_CHECKLIST_WEIGHT == 20
ADDRESSES_PROBLEM_WEIGHT == 30
LOGICAL_SOLUTION_WEIGHT == 25
BREVITY_WEIGHT == 5
POTENTIAL_BUGS_WEIGHT == 20

RECURSIVE GCD(_, _)
GCD(a, b) == IF b = 0 THEN a ELSE GCD(b, a % b)

Abs(x) == IF x < 0 THEN -x ELSE x

\* the rational n/d (d > 0) in lowest terms
Rat(n, d) ==
    LET g == GCD(Abs(n), d)
    IN [n |-> n \div g, d |-> d \div g]

RatLess(x, y) == x.n * y.d < y.n * x.d

Zero == Rat(0, 1)

\* EMPTY_PATCH_SCORE
EMPTY_PATCH_SCORE ==
    [dynamic_checklist_scores |-> <<>>,
     addresses_problem_in_statement |-> 0,
     logical_solution |-> 0,
     brevity_and_cleanliness_of_code |-> 0,
     potential_bugs_generated |-> 0,
     explanation_of_scores |-> "Patch was empty"]

\* static_score, in units of 1/(100 * One)
StaticScore(score) ==
    ADDRESSES_PROBLEM_WEIGHT * score.addresses_problem_in_statement
    + LOGICAL_SOLUTION_WEIGHT * score.logical_solution
    + BREVITY_WEIGHT * score.brevity_and_cleanliness_of_code
    + POTENTIAL_BUGS_WEIGHT * (One - score.potential_bugs_generated)

\* faulty variant: the static score is not rescaled when the checklist is empty
ComputeOverallScoreUnscaled(score) ==
    IF score.dynamic_checklist_scores = <<>>
    THEN Rat(StaticScore(score), 100 * One)
    ELSE Rat(StaticScore(score) * Len(score.dynamic_checklist_scores)
                + DYNAMIC_CHECKLIST_WEIGHT * SeqSum(score.dynamic_checklist_scores),
             100 * One * Len(score.dynamic_checklist_scores))

\* faulty variant: the checklist scores are summed, not averaged
ComputeOverallScoreSummed(score) ==
    IF score.dynamic_checklist_scores = <<>>
    THEN Rat(StaticScore(score), (100 - DYNAMIC_CHECKLIST_WEIGHT) * One)
    ELSE Rat(StaticScore(score)
                + DYNAMIC_CHECKLIST_WEIGHT * SeqSum(score.dynamic_checklist_scores),
             100 * One)

\* _compute_overall_score, as an exact rational
ComputeOverallScore(score) ==
    IF score.dynamic_checklist_scores = <<>>
    THEN Rat(StaticScore(score), (100 - DYNAMIC_CHECKLIST_WEIGHT) * One)
    ELSE Rat(StaticScore(score) * Len(score.dynamic_checklist_scores)
                + DYNAMIC_CHECKLIST_WEIGHT * SeqSum(score.dynamic_checklist_scores),
             100 * One * Len(score.dynamic_checklist_scores))

\* _grade_miner_solution under the outcomes env of its external calls:
\* [kind, score, calls]; kind "sentinel": the return of line 103; kind "graded": the
\* parsed oracle score; kind "raised": an oracle call raised, or parsed is None
GradeMinerSolution(patch, env) ==
    LET pre == PreprocessPatch(patch, env)
    IN IF pre.kind = "raised"
       THEN [kind |-> "raised", score |-> EMPTY_PATCH_SCORE, calls |-> pre.calls]
       ELSE IF pre.patch = <<>>
       THEN [kind |-> "sentinel", score |-> EMPTY_PATCH_SCORE, calls |-> pre.calls]
       ELSE IF env.oracle \in {"raise", "none"}
       THEN [kind |-> "raised", score |-> EMPTY_PATCH_SCORE,
             calls |-> Append(pre.calls, "grader")]
       ELSE [kind |-> "graded", score |-> env.parsed,
             calls |-> Append(pre.calls, "grader")]

RECURSIVE GradeLoop(_, _, _)
\* the loop of FloatGrader.grade from submission i on: the submissions graded before
\* one raises (graded) and their overall scores
GradeLoop(subs, i, acc) ==
    IF i > Len(subs) THEN [acc EXCEPT !.outcome = "returned"]
    ELSE LET g == GradeMinerSolution(subs[i].patch, subs[i].env)
         IN IF g.kind = "raised"
            THEN [acc EXCEPT !.outcome = "raised", !.graded = Append(@, g)]
            ELSE GradeLoop(subs, i + 1,
                           [acc EXCEPT !.graded = Append(@, g),
                                       !.scores = Append(@, ComputeOverallScore(g.score))])

\* FloatGrader.grade(submissions): [subs, outcome, graded, scores]; when outcome is
\* "raised" the exception left grade and scores was never returned
FloatGraderGrade(subs) ==
    GradeLoop(subs, 1, [subs |-> subs, outcome |-> "none", graded |-> <<>>, scores |-> <<>>])

(***************************************************************************)
(* Inputs of the graders: patches, oracle answers, submissions             *)
(***************************************************************************)
\* bound: submissions of one FloatGrader.grade call
MaxSubs == 3

\* "" ; "not a diff" ; a lone added comment line ; a diff with header, hunk, an added
\* line with inline comment, an added whole-line comment and a context line
PatchEmpty == <<>>
PatchNotADiff == << <<"n", "o", "t", " ", "a", " ", "d", "i", "f", "f">> >>
PatchCommentOnly == << <<"+", " ", "#", "x">> >>
PatchDiff ==
    << <<"-", "-", "-", " ", "a">>,
       <<"+", "+", "+", " ", "b">>,
       <<"@", "@">>,
       <<" ", "y">>,
       <<"+", "x", " ", "#", "c">>,
       <<"+", "#", "c">> >>

PatchSamples == {PatchEmpty, PatchNotADiff, PatchCommentOnly, PatchDiff}

\* rubric scores the grading oracle may answer with
Rubric(checklist, a, l, b, p) ==
    [dynamic_checklist_scores |-> checklist,
     addresses_problem_in_statement |-> a,
     logical_solution |-> l,
     brevity_and_cleanliness_of_code |-> b,
     potential_bugs_generated |-> p,
     explanation_of_scores |-> "graded"]

RubricHigh == Rubric(<<One, One>>, One, One, One, 0)
RubricMid == Rubric(<<>>, One, 0, One, One)
RubricLow == Rubric(<<0>>, 0, 0, 0, One)

RubricSamples == {RubricHigh, RubricMid, RubricLow}

\* the outcomes of the external calls made for one submission: the dry-run apply, the
\* cleaner oracle call, the grading oracle call (it raises, its message parses to
\* None, or it parses to the score parsed)
Envs ==
    [apply : {"ok", "fail"}, cleaner : {"ok", "raise"},
     oracle : {"raise", "none", "score"}, parsed : RubricSamples]

\* an outcome that is never consulted is fixed, so that no input is counted twice
Consulted(patch, env) ==
    /\ ~GitApplyCheck(patch, env.apply) => (env.cleaner = "ok" /\ env.oracle = "none")
    /\ ~HasDiffHeader(patch) => env.apply = "fail"
    /\ env.cleaner = "raise" => env.oracle = "none"
    /\ env.oracle # "score" => env.parsed = RubricLow

FloatSubmissions ==
    {sub \in [patch : PatchSamples, env : Envs] : Consulted(sub.patch, sub.env)}

SeqsUpTo(S, n) == UNION {[1 .. k -> S] : k \in 0 .. n}

(***************************************************************************)
(* FloatGrader.grade as an action                                          *)
(***************************************************************************)
FloatGrade ==
    /\ g_pc = "idle"
    /\ \E subs \in SeqsUpTo(FloatSubmissions, MaxSubs) :
          fg_call' = FloatGraderGrade(subs)
    /\ g_pc' = "float_done"
    /\ UNCHANGED <<elo_subs, elo_players, elo_matches, elo_next, elo_log, elo_output, elo_result>>
    /\ UNCHANGED <<vVars, tVars, hVars, pVars>>

\* the caller takes the result (or the exception); the grader keeps nothing of the call
GraderReturn ==
    /\ g_pc \in {"float_done", "elo_done"}
    /\ g_pc' = "idle"
    /\ fg_call' = NoFloatCall
    /\ elo_subs' = 0
    /\ elo_players' = <<>>
    /\ elo_matches' = <<>>
    /\ elo_next' = 1
    /\ elo_log' = <<>>
    /\ elo_output' = <<>>
    /\ elo_result' = NoEloResult
    /\ UNCHANGED <<vVars, tVars, hVars, pVars>>

(***************************************************************************)
(* EloGrader / rank_elo (src/agentao/validator/graders/elo_grader.py)      *)
(*                                                                         *)
(* Players are the indices 0 .. n-1 (str(i) in the code); ratings are in   *)
(* thousandths of a point, match scores and expected scores in thousandths.*)
(***************************************************************************)
\* bound: submissions of one rank_elo call
MaxPlayers == 3

NUM_ELO_ROUNDS == 2

\* EloRating(k_factor=32, default_rating=1200)
K_FACTOR == 32
DEFAULT_RATING == 1200

\* self.players.get(player, self.default_rating)
GetRating(players, player) ==
    IF player \in DOMAIN players THEN players[player] ELSE DEFAULT_RATING * 1000

\* get_expected_score: 1 / (1 + 10 ** ((rating_b - rating_a) / 400)), in thousandths,
\* by its tangent at equal ratings (slope ln(10)/1600 per point), kept inside (0, 1)
GetExpectedScore(rating_a, rating_b) ==
    LET d == rating_a - rating_b
        lin == (Abs(d) * 144) \div 100000
        off == IF lin > 499 THEN 499 ELSE lin
    IN IF d >= 0 THEN 500 + off ELSE 500 - off

\* faulty variant: player_b loses only half of what player_a gains
EloUpdateRatingsHalfLoss(players, player_a, player_b, score_a) ==
    LET rating_a == GetRating(players, player_a)
        rating_b == GetRating(players, player_b)
        change_a == K_FACTOR * (score_a - GetExpectedScore(rating_a, rating_b))
    IN [x \in (DOMAIN players) \cup {player_a, player_b} |->
            IF x = player_b THEN rating_b - change_a \div 2
            ELSE IF x = player_a THEN rating_a + change_a
            ELSE players[x]]

\* EloRating.update_ratings(player_a, player_b, score_a)
EloUpdateRatings(players, player_a, player_b, score_a) ==
    LET rating_a == GetRating(players, player_a)
        rating_b == GetRating(players, player_b)
        change_a == K_FACTOR * (score_a - GetExpectedScore(rating_a, rating_b))
    IN [x \in (DOMAIN players) \cup {player_a, player_b} |->
            IF x = player_b THEN rating_b - change_a
            ELSE IF x = player_a THEN rating_a + change_a
            ELSE players[x]]

\* list(combinations(indices, 2))
SolutionPairs(n) == {pr \in (0 .. n - 1) \X (0 .. n - 1) : pr[1] < pr[2]}

\* the orders random.shuffle can leave a list of the elements of S in
Shuffles(S) ==
    {f \in [1 .. Cardinality(S) -> S] : \A i, j \in DOMAIN f : f[i] = f[j] => i = j}

RECURSIVE MatchRounds(_, _)
\* the match lists `rounds` shuffled rounds can append
MatchRounds(S, rounds) ==
    IF rounds = 0 THEN {<<>>}
    ELSE {r \o rest : r \in Shuffles(S), rest \in MatchRounds(S, rounds - 1)}

\* faulty variant: the pairs are played in one round only
GenerateMatchesOneRound(n) == MatchRounds(SolutionPairs(n), 1)

\* generate_matches(indices): every list it can return
GenerateMatches(n) == MatchRounds(SolutionPairs(n), NUM_ELO_ROUNDS)

\* the verdicts the pairwise oracle can parse to
Verdicts == [model_1_victor : BOOLEAN, model_2_victor : BOOLEAN, is_draw : BOOLEAN]

TrueCount(v) ==
    (IF v.model_1_victor THEN 1 ELSE 0) + (IF v.model_2_victor THEN 1 ELSE 0)
    + (IF v.is_draw THEN 1 ELSE 0)

\* faulty variant: a draw is rated before the verdict is validated
GenerateWinLossRatesFirst(players, first, second, v) ==
    LET afterDraw == IF v.is_draw
                     THEN EloUpdateRatings(players, first, second, 500)
                     ELSE players
        logDraw == IF v.is_draw THEN << <<first, second, 500>> >> ELSE <<>>
    IN IF TrueCount(v) # 1
       THEN [kind |-> "raised", players |-> afterDraw, log |-> logDraw]
       ELSE IF v.model_1_victor
       THEN [kind |-> "ok",
             players |-> EloUpdateRatings(afterDraw, first, second, 1000),
             log |-> Append(logDraw, <<first, second, 1000>>)]
       ELSE [kind |-> "ok",
             players |-> EloUpdateRatings(afterDraw, second, first, 1000),
             log |-> Append(logDraw, <<second, first, 1000>>)]

\* generate_win_loss_for_problem, lines 159-179: [kind, players, log]; log lists the
\* update_ratings calls <<player_a, player_b, score_a>> it made
GenerateWinLoss(players, first, second, v) ==
    IF TrueCount(v) # 1
    THEN [kind |-> "raised", players |-> players, log |-> <<>>]
    ELSE LET afterDraw == IF v.is_draw
                          THEN EloUpdateRatings(players, first, second, 500)
                          ELSE players
             logDraw == IF v.is_draw THEN << <<first, second, 500>> >> ELSE <<>>
         IN IF v.model_1_victor
            THEN [kind |-> "ok",
                  players |-> EloUpdateRatings(afterDraw, first, second, 1000),
                  log |-> Append(logDraw, <<first, second, 1000>>)]
            ELSE [kind |-> "ok",
                  players |-> EloUpdateRatings(afterDraw, second, first, 1000),
                  log |-> Append(logDraw, <<second, first, 1000>>)]

RECURSIVE InsertDescending(_, _)
\* insert item into a list sorted by descending rating, after the items of equal rating
InsertDescending(sorted, item) ==
    IF sorted = <<>> THEN <<item>>
    ELSE IF Head(sorted)[2] >= item[2]
    THEN <<Head(sorted)>> \o InsertDescending(Tail(sorted), item)
    ELSE <<item>> \o sorted

RECURSIVE SortDescending(_, _)
\* sorted(items, key=lambda x: x[1], reverse=True): stable
SortDescending(items, acc) ==
    IF items = <<>> THEN acc
    ELSE SortDescending(Tail(items), InsertDescending(acc, Head(items)))

\* get_raw_elo_rankings: the dict of name -> rating in descending order of rating, as
\* the list of its items
GetRawEloRankings(players, n) ==
    SortDescending([i \in 1 .. n |-> <<i - 1, GetRating(players, i - 1)>>], <<>>)

\* rankings[name]
Lookup(items, name) ==
    LET k == CHOOSE k \in DOMAIN items : items[k][1] = name
    IN items[k][2]

\* faulty variant: the values of the sorted rankings, in their sorted order
EloScoresInRankOrder(players, n) ==
    [i \in 1 .. n |-> GetRawEloRankings(players, n)[i][2]]

\* scores = [raw_elo_model_rankings[str(i)] for i in range(len(submissions))]
EloScores(players, n) ==
    [i \in 1 .. n |-> Lookup(GetRawEloRankings(players, n), i - 1)]

\* rank_elo, lines 189-193: submissions[0] of an empty list raises IndexError
EloStartEmpty ==
    /\ g_pc = "idle"
    /\ g_pc' = "elo_done"
    /\ elo_subs' = 0
    /\ elo_result' = [kind |-> "raised", scores |-> <<>>]
    /\ UNCHANGED <<fg_call, elo_players, elo_matches, elo_next, elo_log, elo_output>>
    /\ UNCHANGED <<vVars, tVars, hVars, pVars>>

\* rank_elo, lines 189-195: a fresh EloRating and the matches of the tournament
EloStart ==
    /\ g_pc = "idle"
    /\ \E n \in 1 .. MaxPlayers :
       \E matches \in GenerateMatches(n) :
          /\ elo_subs' = n
          /\ elo_matches' = matches
    /\ elo_players' = <<>>
    /\ elo_next' = 1
    /\ elo_log' = <<>>
    /\ elo_output' = <<>>
    /\ elo_result' = NoEloResult
    /\ g_pc' = "elo_play"
    /\ UNCHANGED fg_call
    /\ UNCHANGED <<vVars, tVars, hVars, pVars>>

\* one iteration of the loop of rank_elo whose oracle call raises
EloOracleRaises ==
    /\ g_pc = "elo_play"
    /\ elo_next <= Len(elo_matches)
    /\ g_pc' = "elo_done"
    /\ elo_log' = <<>>
    /\ elo_output' = <<>>
    /\ elo_result' = [kind |-> "raised", scores |-> <<>>]
    /\ UNCHANGED <<fg_call, elo_subs, elo_players, elo_matches, elo_next>>
    /\ UNCHANGED <<vVars, tVars, hVars, pVars>>

\* one iteration of the loop of rank_elo whose verdict generate_win_loss_for_problem
\* rejects: the ValueError ends rank_elo
EloMatchRaises ==
    /\ g_pc = "elo_play"
    /\ elo_next <= Len(elo_matches)
    /\ \E v \in Verdicts :
          LET r == GenerateWinLoss(elo_players, elo_matches[elo_next][1],
                                   elo_matches[elo_next][2], v)
          IN /\ r.kind = "raised"
             /\ elo_players' = r.players
             /\ elo_log' = r.log
             /\ elo_output' = <<v>>
    /\ g_pc' = "elo_done"
    /\ elo_result' = [kind |-> "raised", scores |-> <<>>]
    /\ UNCHANGED <<fg_call, elo_subs, elo_matches, elo_next>>
    /\ UNCHANGED <<vVars, tVars, hVars, pVars>>

\* one iteration of the loop of rank_elo: the next match is judged and rated
EloPlayMatch ==
    /\ g_pc = "elo_play"
    /\ elo_next <= Len(elo_matches)
    /\ \E v \in Verdicts :
          LET r == GenerateWinLoss(elo_players, elo_matches[elo_next][1],
                                   elo_matches[elo_next][2], v)
          IN /\ r.kind = "ok"
             /\ elo_players' = r.players
             /\ elo_log' = r.log
             /\ elo_output' = <<v>>
    /\ elo_next' = elo_next + 1
    /\ UNCHANGED <<g_pc, fg_call, elo_subs, elo_matches, elo_result>>
    /\ UNCHANGED <<vVars, tVars, hVars, pVars>>

\* rank_elo, lines 208-212: the scores in submission order
EloFinish ==
    /\ g_pc = "elo_play"
    /\ elo_next > Len(elo_matches)
    /\ elo_result' = [kind |-> "returned", scores |-> EloScores(elo_players, elo_subs)]
    /\ elo_log' = <<>>
    /\ elo_output' = <<>>
    /\ g_pc' = "elo_done"
    /\ UNCHANGED <<fg_call, elo_subs, elo_players, elo_matches, elo_next>>
    /\ UNCHANGED <<vVars, tVars, hVars, pVars>>

GInit == VIdle /\ step = 0 /\ GIdle /\ TIdle /\ HIdle /\ PIdle

FloatNext ==
    \/ FloatGrade
    \/ GraderReturn

\* FloatGrader.grade called on its own
SpecFloat == GInit /\ [][FloatNext]_vars

GNext ==
    \/ FloatGrade
    \/ EloStartEmpty
    \/ EloStart
    \/ EloOracleRaises
    \/ EloMatchRaises
    \/ EloPlayMatch
    \/ EloFinish
    \/ GraderReturn

SpecGrader == GInit /\ [][GNext]_vars

(***************************************************************************)
(* TrueSkillGrader (src/agentao/validator/graders/trueskill_grader.py)     *)
(*                                                                         *)
(* mu and sigma are in thirds: the defaults of trueskill.TrueSkill() are   *)
(* mu = 25 and sigma = 25/3.                                               *)
(***************************************************************************)
\* bound: grade calls made on one grader
MaxRounds == 2

\* trueskill.TrueSkill(): mu = 25, sigma = 25/3, in thirds
MU == 75
SIGMA == 25

Hotkeys == {"hkA", "hkB", "hkC"}

\* self.env.create_rating()
CreateRating == [mu |-> MU, sigma |-> SIGMA]

Keys(items) == {items[i][1] : i \in DOMAIN items}

\* d[key]
Get(items, key) ==
    LET k == CHOOSE k \in DOMAIN items : items[k][1] = key
    IN items[k][2]

\* d[key] = value: a present key keeps its place, a new key goes last
Put(items, key, value) ==
    IF key \in Keys(items)
    THEN [k \in DOMAIN items |-> IF items[k][1] = key THEN <<key, value>> ELSE items[k]]
    ELSE Append(items, <<key, value>>)

RECURSIVE InitNewMiners(_, _)
\* grade, lines 23-25
InitNewMiners(table, subs) ==
    IF subs = <<>> THEN table
    ELSE InitNewMiners(
             IF Head(subs).miner_hotkey \in Keys(table) THEN table
             ELSE Put(table, Head(subs).miner_hotkey, CreateRating),
             Tail(subs))

RECURSIVE RawScores(_, _, _)
\* update_ratings, lines 52-54: raw_scores over zip(float_scores, submissions)
RawScores(subs, float_scores, raw) ==
    IF subs = <<>> \/ float_scores = <<>> THEN raw
    ELSE RawScores(Tail(subs), Tail(float_scores),
                   Put(raw, Head(subs).miner_hotkey, Head(float_scores)))

RECURSIVE InsertByScore(_, _)
\* insert item into a list sorted by descending score, after the items of equal score
InsertByScore(sorted, item) ==
    IF sorted = <<>> THEN <<item>>
    ELSE IF RatLess(Head(sorted)[2], item[2])
    THEN <<item>> \o sorted
    ELSE <<Head(sorted)>> \o InsertByScore(Tail(sorted), item)

RECURSIVE SortByScore(_, _)
\* sorted(raw_scores.items(), key=lambda x: x[1], reverse=True): stable
SortByScore(items, acc) ==
    IF items = <<>> THEN acc
    ELSE SortByScore(Tail(items), InsertByScore(acc, Head(items)))

SortedScores(raw) == SortByScore(raw, <<>>)

\* update_ratings, lines 58-61: the items of self.ratings whose key is in raw_scores
RatingsGroups(table, raw) ==
    SelectSeq(table, LAMBDA item : item[1] \in Keys(raw))

\* faulty variant: the rank of a miner is its place in raw_scores (the scores are not sorted)
RanksUnsorted(groups, raw) ==
    [j \in DOMAIN groups |->
        (CHOOSE i \in DOMAIN raw : raw[i][1] = groups[j][1]) - 1]

\* update_ratings, lines 63-69: the rank of a group is the index of its miner in
\* sorted_scores
Ranks(groups, raw) ==
    LET sorted_scores == SortedScores(raw)
    IN [j \in DOMAIN groups |->
           (CHOOSE i \in DOMAIN sorted_scores : sorted_scores[i][1] = groups[j][1]) - 1]

\* self.env.rate(ratings_groups, ranks=ranks) of the trueskill library, for groups of
\* one player each.  It raises ValueError for fewer than two groups.  The update of
\* a group depends only on its own rating and rank and on the ratings and ranks of
\* the other groups, not on the order in which the groups are passed: here mu moves
\* up by sigma/5 for every group ranked worse and down for every group ranked better,
\* and sigma shrinks by a tenth.
RateOne(groups, ranks, j) ==
    LET better == Cardinality({k \in DOMAIN groups : ranks[k] < ranks[j]})
        worse == Cardinality({k \in DOMAIN groups : ranks[k] > ranks[j]})
        r == groups[j][2]
    IN [mu |-> r.mu + (r.sigma \div 5) * (worse - better),
        sigma |-> r.sigma - (r.sigma \div 10)]

Rate(groups, ranks) ==
    IF Len(groups) < 2 \/ Len(ranks) # Len(groups)
    THEN [kind |-> "raised", new_ratings |-> <<>>]
    ELSE [kind |-> "ok",
          new_ratings |-> [j \in DOMAIN groups |-> <<groups[j][1], RateOne(groups, ranks, j)>>]]

\* faulty variant: self.ratings is replaced by the new ratings alone
SaveAllOnly(table, new_ratings) == new_ratings

RECURSIVE SaveNewRatings(_, _)
\* update_ratings, lines 73-76
SaveNewRatings(table, new_ratings) ==
    IF new_ratings = <<>> THEN table
    ELSE SaveNewRatings(Put(table, Head(new_ratings)[1], Head(new_ratings)[2]),
                        Tail(new_ratings))

\* update_ratings(submissions, float_scores) on the table: [kind, table, groups, ranks]
UpdateRatings(table, subs, float_scores) ==
    LET raw == RawScores(subs, float_scores, <<>>)
        groups == RatingsGroups(table, raw)
        ranks == Ranks(groups, raw)
        rated == Rate(groups, ranks)
    IN [kind |-> rated.kind,
        table |-> IF rated.kind = "ok" THEN SaveNewRatings(table, rated.new_ratings)
                  ELSE table,
        groups |-> groups,
        ranks |-> ranks]

\* num_runs = 1 if self.num_runs > 5 else 3
UpdateRuns(runs) == IF runs > 5 THEN 1 ELSE 3

RECURSIVE RunUpdates(_, _, _, _, _)
\* grade, lines 32-33: the update is run `left` more times; done counts the runs made
RunUpdates(table, subs, float_scores, left, done) ==
    IF left = 0 THEN [kind |-> "ok", table |-> table, updates |-> done]
    ELSE LET u == UpdateRatings(table, subs, float_scores)
         IN IF u.kind = "raised"
            THEN [kind |-> "raised", table |-> table, updates |-> done]
            ELSE RunUpdates(u.table, subs, float_scores, left - 1, done + 1)

\* miner_rating.mu - 3 * miner_rating.sigma, in thirds
ConservativeSkill(r) == r.mu - 3 * r.sigma

\* the argument of the logistic function of line 40 for one miner, divided by
\* self.apha: miner_rating - mean_score with mean_score over self.ratings.values().
\* The reward is 1 / (1 + exp(-apha * x)): strictly increasing in x, 0.5 at x = 0.
RewardArg(table, hotkey) ==
    Rat(Len(table) * ConservativeSkill(Get(table, hotkey))
            - SeqSum([k \in DOMAIN table |-> ConservativeSkill(table[k][2])]),
        Len(table))

\* grade, lines 35-42
Rewards(table, subs) ==
    [i \in DOMAIN subs |-> RewardArg(table, subs[i].miner_hotkey)]

\* TrueSkillGrader.grade(submissions) on the table: the record of the call, with
\* the table it leaves in .table
TrueSkillGrade(table, runs, subs) ==
    LET mid == InitNewMiners(table, subs)
        fg == FloatGraderGrade(subs)
        first == UpdateRatings(mid, subs, fg.scores)
        upd == RunUpdates(mid, subs, fg.scores, UpdateRuns(runs), 0)
        base == [subs |-> subs, outcome |-> "float_raised", scores |-> <<>>,
                 pre |-> table, mid |-> mid, groups |-> <<>>, ranks |-> <<>>,
                 updates |-> 0, result |-> <<>>, table |-> mid]
    IN IF fg.outcome = "raised" THEN base
       ELSE IF upd.kind = "raised"
       THEN [base EXCEPT !.outcome = "rate_raised", !.scores = fg.scores,
                         !.groups = first.groups, !.ranks = first.ranks,
                         !.updates = upd.updates, !.table = upd.table]
       ELSE [base EXCEPT !.outcome = "returned", !.scores = fg.scores,
                         !.groups = first.groups, !.ranks = first.ranks,
                         !.updates = upd.updates, !.table = upd.table,
                         !.result = Rewards(upd.table, subs)]

\* what happens to the submission of one miner of a round: the checkout rejects its
\* patch, or the grading oracle raises, or it answers with a high or a low score
TsEnvs ==
    {[apply |-> "fail", cleaner |-> "ok", oracle |-> "none", parsed |-> RubricLow],
     [apply |-> "ok", cleaner |-> "ok", oracle |-> "raise", parsed |-> RubricLow],
     [apply |-> "ok", cleaner |-> "ok", oracle |-> "score", parsed |-> RubricLow],
     [apply |-> "ok", cleaner |-> "ok", oracle |-> "score", parsed |-> RubricHigh]}

\* the rounds: one submission per miner, of any number of the miners, in any order
TsRounds ==
    {subs \in SeqsUpTo([miner_hotkey : Hotkeys, patch : {PatchDiff}, env : TsEnvs],
                       Cardinality(Hotkeys)) :
        \A i, j \in DOMAIN subs : subs[i].miner_hotkey = subs[j].miner_hotkey => i = j}

\* one call of TrueSkillGrader.grade
TsGrade ==
    /\ t_pc = "idle"
    /\ ts_rounds < MaxRounds
    /\ \E subs \in TsRounds :
          \E call \in {TrueSkillGrade(ratings, num_runs, subs)} :
             /\ ratings' = call.table
             /\ ts_call' = [subs |-> call.subs, outcome |-> call.outcome,
                             scores |-> call.scores, pre |-> call.pre, mid |-> call.mid,
                             groups |-> call.groups, ranks |-> call.ranks,
                             updates |-> call.updates, result |-> call.result]
    /\ ts_rounds' = ts_rounds + 1
    /\ t_pc' = "graded"
    /\ UNCHANGED num_runs
    /\ UNCHANGED <<vVars, gVars, hVars, pVars>>

\* the caller takes the rewards (or the exception); the rating table stays
TsReturn ==
    /\ t_pc = "graded"
    /\ t_pc' = "idle"
    /\ ts_call' = NoTsCall
    /\ UNCHANGED <<ratings, num_runs, ts_rounds>>
    /\ UNCHANGED <<vVars, gVars, hVars, pVars>>

TInit == VIdle /\ step = 0 /\ GIdle /\ TIdle /\ HIdle /\ PIdle

TNext ==
    \/ TsGrade
    \/ TsReturn

SpecTrueSkill == TInit /\ [][TNext]_vars

(***************************************************************************)
(* A grader that keeps grading: many rounds of the same two miners         *)
(***************************************************************************)
\* bound: grade calls made on the grader that keeps grading
MaxSteadyRounds == 7

\* the rounds of the two miners hkA and hkB, each scored high or low by the oracle
TsSteadyRounds ==
    {subs \in [1 .. 2 -> [miner_hotkey : Hotkeys, patch : {PatchDiff},
                          env : {e \in TsEnvs : e.oracle = "score"}]] :
        subs[1].miner_hotkey = "hkA" /\ subs[2].miner_hotkey = "hkB"}

\* one more call of TrueSkillGrader.grade on a grader that keeps grading
TsGradeSteady ==
    /\ t_pc = "idle"
    /\ ts_rounds < MaxSteadyRounds
    /\ \E subs \in TsSteadyRounds :
          \E call \in {TrueSkillGrade(ratings, num_runs, subs)} :
             /\ ratings' = call.table
             /\ ts_call' = [subs |-> call.subs, outcome |-> call.outcome,
                             scores |-> call.scores, pre |-> call.pre, mid |-> call.mid,
                             groups |-> call.groups, ranks |-> call.ranks,
                             updates |-> call.updates, result |-> call.result]
    /\ ts_rounds' = ts_rounds + 1
    /\ t_pc' = "graded"
    /\ UNCHANGED num_runs
    /\ UNCHANGED <<vVars, gVars, hVars, pVars>>

TSteadyNext ==
    \/ TsGradeSteady
    \/ TsReturn

\* the validator calls grade round after round
SpecTrueSkillSteady == TInit /\ [][TSteadyNext]_vars /\ WF_vars(TSteadyNext)

(***************************************************************************)
(* The score combiner called on its own                                    *)
(* (src/agentao/validator/graders/float_grader.py and                      *)
(*  src/taogod/helpers/helpers.py)                                         *)
(***************************************************************************)
\* bound: length of dynamic_checklist_scores
MaxChecklist == 2

\* the values a float field of FloatGraderScore is given, in hundredths: the model
\* class puts no constraint on its fields, so values outside [0, 1] are among them
FieldValues == {0 - One \div 2, 0, One \div 2, One, One + One \div 2}

\* the values the items of dynamic_checklist_scores are given
ChecklistValues == {0, One \div 2, One + One \div 2}

\* the checklists of at most n items
Checklists(n) == SeqsUpTo(ChecklistValues, n)

\* the rubric scores the oracle's answer can parse to, with checklists of at most n items
RubricInputs(n) ==
    {Rubric(checklist, a, l, b, q) :
        checklist \in Checklists(n),
        a \in FieldValues, l \in FieldValues, b \in FieldValues, q \in FieldValues}

\* compute_overall_score of src/taogod/helpers/helpers.py: the same weights and the
\* same two branches
ComputeOverallScoreTaogod(score) ==
    IF score.dynamic_checklist_scores = <<>>
    THEN Rat(StaticScore(score), (100 - DYNAMIC_CHECKLIST_WEIGHT) * One)
    ELSE Rat(StaticScore(score) * Len(score.dynamic_checklist_scores)
                + DYNAMIC_CHECKLIST_WEIGHT * SeqSum(score.dynamic_checklist_scores),
             100 * One * Len(score.dynamic_checklist_scores))

\* a call of _compute_overall_score (agentao)
CombineCall ==
    /\ h_pc = "idle"
    /\ \E score \in RubricInputs(MaxChecklist) :
          h_call' = [fn |-> "_compute_overall_score", arg |-> score,
                     out |-> ComputeOverallScore(score)]
    /\ h_pc' = "called"
    /\ UNCHANGED <<vVars, gVars, tVars, pVars>>

\* a call of compute_overall_score (taogod)
CombineCallTaogod ==
    /\ h_pc = "idle"
    /\ \E score \in RubricInputs(MaxChecklist) :
          h_call' = [fn |-> "compute_overall_score", arg |-> score,
                     out |-> ComputeOverallScoreTaogod(score)]
    /\ h_pc' = "called"
    /\ UNCHANGED <<vVars, gVars, tVars, pVars>>

\* the caller takes the result
HelperReturn ==
    /\ h_pc = "called"
    /\ h_pc' = "idle"
    /\ h_call' = NoHelperCall
    /\ UNCHANGED <<vVars, gVars, tVars, pVars>>

HInit == VIdle /\ step = 0 /\ GIdle /\ TIdle /\ HIdle /\ PIdle

CombineNext ==
    \/ CombineCall
    \/ CombineCallTaogod
    \/ HelperReturn

SpecCombine == HInit /\ [][CombineNext]_vars

(***************************************************************************)
(* exponential_decay (src/agentao/helpers/helpers.py)                      *)
(*                                                                         *)
(* math.exp is not computed: a result is 0, or exp of an exact rational    *)
(* exponent.  exp is strictly increasing and exp(0) = 1, so two results    *)
(* compare as their exponents do and a result is 1 iff its exponent is 0.  *)
(***************************************************************************)
\* bound: the largest threshold N
MaxN == 10

\* faulty variant: the threshold itself is not cut off and the exponent is -x / N
ExponentialDecayOpenThreshold(N, x) ==
    IF x > N \/ N = 0
    THEN [kind |-> "zero", exponent |-> Zero]
    ELSE [kind |-> "exp", exponent |-> Rat(0 - x, N)]

\* exponential_decay(N, x)
ExponentialDecay(N, x) ==
    IF x >= N
    THEN [kind |-> "zero", exponent |-> Zero]
    ELSE [kind |-> "exp", exponent |-> Rat(0 - x, N - x)]

\* a call of exponential_decay
DecayCall ==
    /\ h_pc = "idle"
    /\ \E N \in 0 .. MaxN, x \in 0 .. MaxN + 1 :
          h_call' = [fn |-> "exponential_decay", arg |-> [N |-> N, x |-> x],
                     out |-> ExponentialDecay(N, x)]
    /\ h_pc' = "called"
    /\ UNCHANGED <<vVars, gVars, tVars, pVars>>

DecayNext ==
    \/ DecayCall
    \/ HelperReturn

SpecDecay == HInit /\ [][DecayNext]_vars

(***************************************************************************)
(* remove_comments called on its own (three copies of the same function)   *)
(***************************************************************************)
\* bound: length of a line of a patch
MaxLineLen == 3

\* bound: number of lines of a patch
MaxPatchLines == 2

PatchChars == {"+", "-", "#", " ", "x"}

\* a '+++' file header line: "+++ " and a path of one or two characters
FileHeaderLines(len) ==
    {<<"+", "+", "+", " ">> \o path :
        path \in SeqsUpTo({"x", "#", " "}, len - 1) \ {<<>>}}

\* the lines of a patch: every line of at most len characters, and the file header
\* lines
PatchLines(len) == SeqsUpTo(PatchChars, len) \cup FileHeaderLines(len)

\* patch_content.splitlines(): at most n lines
PatchInputs(len, n) == SeqsUpTo(PatchLines(len), n)

StripCall ==
    /\ h_pc = "idle"
    /\ \E patch \in PatchInputs(MaxLineLen, MaxPatchLines) :
          h_call' = [fn |-> "remove_comments", arg |-> patch,
                     out |-> RemoveComments(patch)]
    /\ h_pc' = "called"
    /\ UNCHANGED <<vVars, gVars, tVars, pVars>>

StripCallGradeOutput ==
    /\ h_pc = "idle"
    /\ \E patch \in PatchInputs(MaxLineLen, MaxPatchLines) :
          h_call' = [fn |-> "grade_output.remove_comments", arg |-> patch,
                     out |-> RemoveCommentsGradeOutput(patch)]
    /\ h_pc' = "called"
    /\ UNCHANGED <<vVars, gVars, tVars, pVars>>

StripCallCodeCompare ==
    /\ h_pc = "idle"
    /\ \E patch \in PatchInputs(MaxLineLen, MaxPatchLines) :
          h_call' = [fn |-> "code_compare.remove_comments", arg |-> patch,
                     out |-> RemoveCommentsCodeCompare(patch)]
    /\ h_pc' = "called"
    /\ UNCHANGED <<vVars, gVars, tVars, pVars>>

StripNext ==
    \/ StripCall
    \/ StripCallGradeOutput
    \/ StripCallCodeCompare
    \/ HelperReturn

SpecStrip == HInit /\ [][StripNext]_vars

(***************************************************************************)
(* A round graded and aggregated with the latency term                     *)
(*                                                                         *)
(* The aggregation of the rating reward with the latency decay is not in   *)
(* the sources: it is taken from section 4.5 of the specification          *)
(* (final = W_eval * rating_reward + W_latency * decay(latency)).  Neither *)
(* the logistic function nor exp is computed: a final reward is kept as    *)
(* its weights, the logistic argument and the decay result.                *)
(***************************************************************************)
\* the reference weights of the aggregation
W_EVAL == 9
W_LATENCY == 1

\* the timeout of the round, in seconds: timedelta(minutes=30).total_seconds()
TIMEOUT_SECONDS == 1800

\* the response latencies of the scenario, in seconds
ScenarioLatencies == {10, 100, 500}

\* rubric scores with the composite scores 0.9, 0.5 and 0.1
RubricNine == Rubric(<<>>, One, One, One, 40)
RubricFive == Rubric(<<>>, One, 0, 0, 50)
RubricTenth == Rubric(<<>>, 0, 0, 0, 60)

ScenarioRubrics == {RubricNine, RubricFive, RubricTenth}

\* the rounds of the scenario: the three miners in any order, each of the three
\* rubric scores given to one of them
ScenarioRounds ==
    {subs \in [1 .. 3 -> [miner_hotkey : Hotkeys, patch : {PatchDiff},
                          env : [apply : {"ok"}, cleaner : {"ok"}, oracle : {"score"},
                                 parsed : ScenarioRubrics]]] :
        \A i, j \in 1 .. 3 :
            i # j => /\ subs[i].miner_hotkey # subs[j].miner_hotkey
                     /\ subs[i].env.parsed # subs[j].env.parsed}

\* the latencies of the three responses: each latency of the scenario once
ScenarioLatencyLists ==
    {lat \in [1 .. 3 -> ScenarioLatencies] : \A i, j \in 1 .. 3 : i # j => lat[i] # lat[j]}

\* aggregate: W_eval * rating_reward + W_latency * decay(latency), per submission
Aggregate(rewards, latencies, timeout) ==
    [i \in DOMAIN rewards |->
        [w_eval |-> W_EVAL, reward_arg |-> rewards[i],
         w_latency |-> W_LATENCY, decay |-> ExponentialDecay(timeout, latencies[i])]]

\* one round of the scenario: graded by TrueSkillGrader.grade, then aggregated
ScenarioRound ==
    /\ t_pc = "idle"
    /\ h_pc = "idle"
    /\ ts_rounds = 0
    /\ \E subs \in ScenarioRounds, latencies \in ScenarioLatencyLists :
          \E call \in {TrueSkillGrade(ratings, num_runs, subs)} :
             /\ ratings' = call.table
             /\ ts_call' = [subs |-> call.subs, outcome |-> call.outcome,
                             scores |-> call.scores, pre |-> call.pre, mid |-> call.mid,
                             groups |-> call.groups, ranks |-> call.ranks,
                             updates |-> call.updates, result |-> call.result]
             /\ h_call' = [fn |-> "aggregate",
                           arg |-> [latencies |-> latencies, timeout |-> TIMEOUT_SECONDS],
                           out |-> Aggregate(call.result, latencies, TIMEOUT_SECONDS)]
    /\ ts_rounds' = ts_rounds + 1
    /\ t_pc' = "graded"
    /\ h_pc' = "called"
    /\ UNCHANGED num_runs
    /\ UNCHANGED <<vVars, gVars, pVars>>

\* the caller takes the final rewards
ScenarioReturn ==
    /\ t_pc = "graded"
    /\ h_pc = "called"
    /\ t_pc' = "idle"
    /\ h_pc' = "idle"
    /\ ts_call' = NoTsCall
    /\ h_call' = NoHelperCall
    /\ UNCHANGED <<ratings, num_runs, ts_rounds>>
    /\ UNCHANGED <<vVars, gVars, pVars>>

ScenarioNext ==
    \/ ScenarioRound
    \/ ScenarioReturn

SpecScenario == TInit /\ [][ScenarioNext]_vars

(***************************************************************************)
(* Synthetic tests: compare_test_results (src/taogod/synthetic_testing.py) *)
(* and calculate_rewards with its thread pool (src/neurons/test_vali.py)   *)
(*                                                                         *)
(* A test map (Dict[str, str]) is a function from test ids to "passed" or  *)
(* "failed"; an optional value is <<>> (None) or <<value>>.                *)
(***************************************************************************)
None == <<>>

Some(x) == <<x>>

\* faulty variant: NEW_PASS and NEW_FAIL only leave out the tests that passed before
CompareTestResultsNewIgnoresFailBefore(before, after) ==
    LET pass_before == {t \in DOMAIN before : before[t] = "passed"}
        fail_before == {t \in DOMAIN before : before[t] = "failed"}
        pass_after == {t \in DOMAIN after : after[t] = "passed"}
        fail_after == {t \in DOMAIN after : after[t] = "failed"}
    IN [PASS_TO_PASS |-> pass_before \cap pass_after,
        PASS_TO_FAIL |-> pass_before \cap fail_after,
        FAIL_TO_PASS |-> fail_before \cap pass_after,
        FAIL_TO_FAIL |-> fail_before \cap fail_after,
        NEW_PASS |-> pass_after \ pass_before,
        NEW_FAIL |-> fail_after \ pass_before]

\* compare_test_results (synthetic_testing.py lines 45-70); list(set) has no
\* duplicates and no defined order, so each list is the set of its tests
CompareTestResults(before, after) ==
    LET pass_before == {t \in DOMAIN before : before[t] = "passed"}
        fail_before == {t \in DOMAIN before : before[t] = "failed"}
        pass_after == {t \in DOMAIN after : after[t] = "passed"}
        fail_after == {t \in DOMAIN after : after[t] = "failed"}
    IN [PASS_TO_PASS |-> pass_before \cap pass_after,
        PASS_TO_FAIL |-> pass_before \cap fail_after,
        FAIL_TO_PASS |-> fail_before \cap pass_after,
        FAIL_TO_FAIL |-> fail_before \cap fail_after,
        NEW_PASS |-> (pass_after \ pass_before) \ fail_before,
        NEW_FAIL |-> (fail_after \ pass_before) \ fail_before]

\* process_response_wrapper (test_vali.py lines 8-29): SWEEnv(...) or env.reset
\* raising, or compare_test_results raising on a None map (run_tests returns None
\* when it fails), is caught and gives None; apply_patch never raises
ProcessResponseWrapper(task) ==
    IF task.env_raises \/ task.tests_before = None \/ task.tests_after = None
    THEN None
    ELSE Some(CompareTestResults(task.tests_before[1], task.tests_after[1]))

\* lines 66-75: the reward of one entry of synthetic_tests
SyntheticReward(test) ==
    IF test = None THEN 0
    ELSE 2 * (IF Cardinality(test[1].PASS_TO_FAIL) = 0 THEN 1 ELSE 0)
         + (IF Cardinality(test[1].FAIL_TO_PASS) >= 0 THEN 1 ELSE 0)
         + 3 * (IF Cardinality(test[1].NEW_FAIL) = 0 THEN 1 ELSE 0)

\* faulty variant: the results are taken as the workers complete
ExecutorMapAsCompleted(futs, order) ==
    [k \in DOMAIN order |-> futs[order[k]].result]

\* list(executor.map(process_response_wrapper, tasks)), line 62: the results in
\* the order of the tasks, whatever the order in which the workers finished
ExecutorMap(futs, order) ==
    [i \in DOMAIN futs |-> futs[i].result]

\* lines 65-77: one appended reward per entry of synthetic_tests
SynTestsArr(synthetic_tests) ==
    [i \in DOMAIN synthetic_tests |-> SyntheticReward(synthetic_tests[i])]

MaxResponses == 3

\* the test results before the patches: run_tests failed, or two tests
BeforeSamples ==
    {None, Some(<<"passed", "failed">>)}

\* what processing one response does: the environment cannot be built, run_tests
\* fails, or the tests give one of four result maps
ResponseSamples ==
    {[env_raises |-> TRUE, tests_after |-> None],
     [env_raises |-> FALSE, tests_after |-> None],
     [env_raises |-> FALSE, tests_after |-> Some(<<"passed", "passed">>)],
     [env_raises |-> FALSE, tests_after |-> Some(<<"failed", "failed">>)],
     [env_raises |-> FALSE, tests_after |-> Some(<<"passed", "failed", "failed">>)],
     [env_raises |-> FALSE, tests_after |-> Some(<<"failed", "passed", "failed">>)]}

\* calculate_rewards, lines 44-56: building the first environment raises
CalcSetupRaises ==
    /\ p_pc = "idle"
    /\ p_pc' = "raised"
    /\ tasks' = <<>>
    /\ futures' = <<>>
    /\ finish_order' = <<>>
    /\ syn_tests_arr' = <<>>
    /\ UNCHANGED <<vVars, gVars, tVars, hVars>>

\* calculate_rewards, lines 44-62: tests_before is taken, the tasks are built and
\* handed to the thread pool
CalcStart ==
    /\ p_pc = "idle"
    /\ \E before \in BeforeSamples :
       \E responses \in SeqsUpTo(ResponseSamples, MaxResponses) :
          /\ tasks' = [i \in DOMAIN responses |->
                          [env_raises |-> responses[i].env_raises,
                           tests_after |-> responses[i].tests_after,
                           tests_before |-> before]]
          /\ futures' = [i \in DOMAIN responses |-> [done |-> FALSE, result |-> None]]
    /\ finish_order' = <<>>
    /\ syn_tests_arr' = <<>>
    /\ p_pc' = "running"
    /\ UNCHANGED <<vVars, gVars, tVars, hVars>>

\* one worker of the pool finishes process_response_wrapper for its task
WorkerFinish ==
    /\ p_pc = "running"
    /\ \E i \in DOMAIN futures :
          /\ ~futures[i].done
          /\ futures' = [futures EXCEPT
                            ![i] = [done |-> TRUE,
                                    result |-> ProcessResponseWrapper(tasks[i])]]
          /\ finish_order' = Append(finish_order, i)
    /\ UNCHANGED <<p_pc, tasks, syn_tests_arr>>
    /\ UNCHANGED <<vVars, gVars, tVars, hVars>>

\* lines 62-77: every worker has finished; the results are collected and rewarded
CalcReturn ==
    /\ p_pc = "running"
    /\ \A i \in DOMAIN futures : futures[i].done
    /\ syn_tests_arr' = SynTestsArr(ExecutorMap(futures, finish_order))
    /\ p_pc' = "returned"
    /\ UNCHANGED <<tasks, futures, finish_order>>
    /\ UNCHANGED <<vVars, gVars, tVars, hVars>>

\* the caller has taken the array, or has handled the exception
CalcDone ==
    /\ p_pc \in {"returned", "raised"}
    /\ p_pc' = "idle"
    /\ tasks' = <<>>
    /\ futures' = <<>>
    /\ finish_order' = <<>>
    /\ syn_tests_arr' = <<>>
    /\ UNCHANGED <<vVars, gVars, tVars, hVars>>

PInit == VIdle /\ step = 0 /\ GIdle /\ TIdle /\ HIdle /\ PIdle

PoolNext ==
    \/ CalcSetupRaises
    \/ CalcStart
    \/ WorkerFinish
    \/ CalcReturn
    \/ CalcDone

SpecPool == PInit /\ [][PoolNext]_vars

(***************************************************************************)
(* llm_eval (src/taogod/code_compare.py): the rubric flags are booleans,   *)
(* the weights are in hundredths, total_score is an exact rational.        *)
(***************************************************************************)
\* the weights of lines 194-198 are those of FloatGrader, defined above

\* a bool used as a number
BoolInt(b) == IF b THEN 1 ELSE 0

\* sum(dynamic_checklist_scores)
TrueItems(checklist) == Cardinality({i \in DOMAIN checklist : checklist[i]})

\* lines 200-217: dynamic_score_achieved = sum / len * weight raises
\* ZeroDivisionError on an empty checklist; the potential-bugs weight is subtracted
LlmEvalTotalScore(evaluation) ==
    LET items == Len(evaluation.dynamic_checklist_scores)
    IN IF items = 0 THEN [kind |-> "raised", total_score |-> Zero]
       ELSE [kind |-> "score",
             total_score |->
                Rat(items * (ADDRESSES_PROBLEM_WEIGHT
                                * BoolInt(evaluation.addresses_problem_in_statement)
                             + LOGICAL_SOLUTION_WEIGHT
                                * BoolInt(evaluation.logical_solution)
                             + BREVITY_WEIGHT
                                * BoolInt(evaluation.brevity_and_cleanliness_of_code)
                             - POTENTIAL_BUGS_WEIGHT
                                * BoolInt(evaluation.potential_bugs_generated))
                    + TrueItems(evaluation.dynamic_checklist_scores)
                         * DYNAMIC_CHECKLIST_WEIGHT,
                    One * items)]

\* the stages at which llm_eval can end
LlmEvalStages ==
    {"invalid_diff", "no_changes", "apply_failed", "empty_after_strip",
     "parsed_none", "evaluated"}

\* llm_eval (lines 115-217): 0.0 for a patch that is no diff, has no changes or
\* does not apply; EMPTY_PATCH_SCORE for a patch that is empty after comment
\* removal or an answer that does not parse; otherwise the weighted total
LlmEval(stage, evaluation) ==
    CASE stage \in {"invalid_diff", "no_changes", "apply_failed"} ->
            [kind |-> "float_zero", total_score |-> Zero]
      [] stage \in {"empty_after_strip", "parsed_none"} ->
            [kind |-> "empty_patch_score", total_score |-> Zero]
      [] OTHER -> LlmEvalTotalScore(evaluation)

\* the evaluations the oracle can return, with checklists of at most n items
LlmEvaluations(n) ==
    [addresses_problem_in_statement : BOOLEAN,
     logical_solution : BOOLEAN,
     brevity_and_cleanliness_of_code : BOOLEAN,
     potential_bugs_generated : BOOLEAN,
     dynamic_checklist_scores : SeqsUpTo(BOOLEAN, n)]

\* one call of llm_eval
LlmEvalCall ==
    /\ h_pc = "idle"
    /\ \E stage \in LlmEvalStages :
       \E evaluation \in LlmEvaluations(MaxChecklist) :
          h_call' = [fn |-> "llm_eval",
                     arg |-> [stage |-> stage, evaluation |-> evaluation],
                     out |-> LlmEval(stage, evaluation)]
    /\ h_pc' = "called"
    /\ UNCHANGED <<vVars, gVars, tVars, pVars>>

LlmEvalNext ==
    \/ LlmEvalCall
    \/ HelperReturn

SpecLlmEval == HInit /\ [][LlmEvalNext]_vars

(***************************************************************************)
(* Miner.blacklist (src/neurons/miner.py)                                  *)
(***************************************************************************)
MaxNeurons == 2

\* list.index(x): the first position of x; the caller makes sure x is in the list
Index(list, x) == Min({i \in DOMAIN list : list[i] = x})

\* blacklist (lines 132-191) for a request, the metagraph's hotkeys and
\* validator_permit and the blacklist config: [kind, blacklisted, reason];
\* metagraph.hotkeys.index raises ValueError for a hotkey that is not in the list
Blacklist(synapse, hotkeys, validator_permit, config) ==
    IF synapse.dendrite = None \/ synapse.dendrite[1].hotkey = None
    THEN [kind |-> "returned", blacklisted |-> TRUE,
          reason |-> "Missing dendrite or hotkey"]
    ELSE LET hotkey == synapse.dendrite[1].hotkey[1]
         IN IF hotkey \notin Range(hotkeys)
            THEN [kind |-> "raised", blacklisted |-> FALSE, reason |-> "ValueError"]
            ELSE IF ~config.allow_non_registered /\ hotkey \notin Range(hotkeys)
            THEN [kind |-> "returned", blacklisted |-> TRUE,
                  reason |-> "Unrecognized hotkey"]
            ELSE IF config.force_validator_permit
                    /\ ~validator_permit[Index(hotkeys, hotkey)]
            THEN [kind |-> "returned", blacklisted |-> TRUE,
                  reason |-> "Non-validator hotkey"]
            ELSE [kind |-> "returned", blacklisted |-> FALSE,
                  reason |-> "Hotkey recognized!"]

\* the requests: no dendrite, a dendrite without hotkey, a dendrite with a hotkey
Synapses ==
    {[dendrite |-> None], [dendrite |-> Some([hotkey |-> None])]}
        \cup {[dendrite |-> Some([hotkey |-> Some(hotkey)])] : hotkey \in Hotkeys}

\* metagraph.hotkeys: at most n registered hotkeys, each once
MetagraphHotkeys(n) ==
    {hotkeys \in SeqsUpTo(Hotkeys, n) :
        \A i, j \in DOMAIN hotkeys : hotkeys[i] = hotkeys[j] => i = j}

\* config.blacklist
BlacklistConfigs == [allow_non_registered : BOOLEAN, force_validator_permit : BOOLEAN]

\* one call of blacklist
BlacklistCall ==
    /\ h_pc = "idle"
    /\ \E synapse \in Synapses :
       \E hotkeys \in MetagraphHotkeys(MaxNeurons) :
       \E validator_permit \in [DOMAIN hotkeys -> BOOLEAN] :
       \E config \in BlacklistConfigs :
          h_call' = [fn |-> "blacklist",
                     arg |-> [synapse |-> synapse, hotkeys |-> hotkeys,
                              validator_permit |-> validator_permit,
                              config |-> config],
                     out |-> Blacklist(synapse, hotkeys, validator_permit, config)]
    /\ h_pc' = "called"
    /\ UNCHANGED <<vVars, gVars, tVars, pVars>>

BlacklistNext ==
    \/ BlacklistCall
    \/ HelperReturn

SpecBlacklist == HInit /\ [][BlacklistNext]_vars

(***************************************************************************)
(* compare_test_results called on its own                                  *)
(***************************************************************************)
MaxTests == 3

\* the results run_tests can return for the tests 1 .. n: each test absent, passed
\* or failed
TestMaps(n) ==
    UNION {[S -> {"passed", "failed"}] : S \in SUBSET (1 .. n)}

\* one call of compare_test_results
CompareCall ==
    /\ h_pc = "idle"
    /\ \E before \in TestMaps(MaxTests) :
       \E after \in TestMaps(MaxTests) :
          h_call' = [fn |-> "compare_test_results",
                     arg |-> [before |-> before, after |-> after],
                     out |-> CompareTestResults(before, after)]
    /\ h_pc' = "called"
    /\ UNCHANGED <<vVars, gVars, tVars, pVars>>

CompareNext ==
    \/ CompareCall
    \/ HelperReturn

SpecCompare == HInit /\ [][CompareNext]_vars

(***************************************************************************)
(* remove_comments on patches made of added lines                          *)
(***************************************************************************)
\* bound: characters of an added line, the '+' included
MaxAddedLen == 3

\* bound: number of lines of a patch of added lines
MaxAddedLines == 2

\* patch_content.splitlines(): at most n lines, each an added line of at most len
\* characters over '#', blank and a letter, or one of three lines that are not added
AddedPatchInputs(len, n) ==
    LET added == {<<"+">> \o rest : rest \in SeqsUpTo({"#", " ", "x"}, len - 1)}
        context == {<<>>, <<"x", "#">>, <<"-", "#">>}
    IN SeqsUpTo(added \cup context, n)

StripAddedCall ==
    /\ h_pc = "idle"
    /\ \E patch \in AddedPatchInputs(MaxAddedLen, MaxAddedLines) :
          h_call' = [fn |-> "remove_comments", arg |-> patch,
                     out |-> RemoveComments(patch)]
    /\ h_pc' = "called"
    /\ UNCHANGED <<vVars, gVars, tVars, pVars>>

StripAddedNext ==
    \/ StripAddedCall
    \/ HelperReturn

SpecStripAdded == HInit /\ [][StripAddedNext]_vars

(***************************************************************************)
(* Claims about FloatGrader and rank_elo (checked under SpecGrader)        *)
(***************************************************************************)
FloatReturned == g_pc = "float_done" /\ fg_call.outcome = "returned"

EloReturned == g_pc = "elo_done" /\ elo_result.kind = "returned"

\* what _grade_miner_solution does for submission i of the last FloatGrader call
GradedAt(i) == GradeMinerSolution(fg_call.subs[i].patch, fg_call.subs[i].env)

\* C3: whenever FloatGrader.grade or rank_elo returns, the returned list has one
\* score per submission and the score at position i is that of submission i: the
\* composite of its rubric score (FloatGrader), the final rating of player i-1 (Elo).
C3_ScoresAlignedWithSubmissions ==
    /\ FloatReturned =>
          /\ Len(fg_call.scores) = Len(fg_call.subs)
          /\ \A i \in DOMAIN fg_call.subs :
                fg_call.scores[i] = ComputeOverallScore(GradedAt(i).score)
    /\ EloReturned =>
          /\ Len(elo_result.scores) = elo_subs
          /\ \A i \in 1 .. elo_subs :
                elo_result.scores[i] = GetRating(elo_players, i - 1)

\* rank_elo returned and the descending sort of the rankings put a later player first
C3_Witness ==
    /\ EloReturned
    /\ elo_subs >= 2
    /\ elo_next > Len(elo_matches)
    /\ GetRawEloRankings(elo_players, elo_subs)[1][1] # 0
    /\ elo_result.scores[1] < elo_result.scores[2]

\* C5: a submission whose patch fails sanitization (the sentinel EMPTY_PATCH_SCORE
\* is returned for it) gets composite score 0 from FloatGrader.grade.
C5_SentinelCompositeIsZero ==
    g_pc = "float_done" =>
        \A i \in DOMAIN fg_call.scores :
            fg_call.graded[i].kind = "sentinel" => fg_call.scores[i] = Zero

\* C6: whenever _grade_miner_solution returns the sentinel, no oracle call (cleaner
\* or grader) was made for that submission; and whenever the dry-run apply fails,
\* preprocess_patch returns the empty patch and the exact sentinel is returned.
C6_SentinelWithoutOracleCall ==
    g_pc = "float_done" =>
        \A i \in DOMAIN fg_call.graded :
            /\ fg_call.graded[i].kind = "sentinel" => fg_call.graded[i].calls = <<>>
            /\ ~GitApplyCheck(fg_call.subs[i].patch, fg_call.subs[i].env.apply) =>
                  /\ PreprocessPatch(fg_call.subs[i].patch, fg_call.subs[i].env).patch = <<>>
                  /\ fg_call.graded[i].kind = "sentinel"
                  /\ fg_call.graded[i].score = EMPTY_PATCH_SCORE

\* a well-formed diff that the checkout rejects was answered with the sentinel
C6_Witness ==
    /\ g_pc = "float_done"
    /\ \E i \in DOMAIN fg_call.graded :
          /\ fg_call.subs[i].patch = PatchDiff
          /\ fg_call.subs[i].env.apply = "fail"
          /\ fg_call.graded[i].kind = "sentinel"

\* C7: if scoring one submission fails inside FloatGrader.grade, the failure is
\* confined to that participant: the call still returns one entry per submission and
\* the other submissions have their scores.
C7_ScoringFailureConfined ==
    (g_pc = "float_done" /\ \E i \in DOMAIN fg_call.subs : GradedAt(i).kind = "raised") =>
        /\ fg_call.outcome = "returned"
        /\ Len(fg_call.scores) = Len(fg_call.subs)
        /\ \A i \in DOMAIN fg_call.subs :
              GradedAt(i).kind # "raised" =>
                  fg_call.scores[i] = ComputeOverallScore(GradedAt(i).score)


(***************************************************************************)
(* Claims about TrueSkillGrader                                            *)
(***************************************************************************)
TsGraded == t_pc = "graded"

\* the float grader scored every submission of the last round
TsScored == TsGraded /\ ts_call.outcome # "float_raised"

TsHotkeys == {ts_call.subs[i].miner_hotkey : i \in DOMAIN ts_call.subs}

\* the composite score of a miner of the last round
TsScoreOf(hotkey) == Get(RawScores(ts_call.subs, ts_call.scores, <<>>), hotkey)

\* C2: for every round with at least one submission whose submissions were all
\* scored, grade returns a list of exactly len(submissions) rewards, reward i is the
\* one computed from the Rating of submissions[i].miner_hotkey, every submitting
\* hotkey has exactly one entry in the rating table afterwards, and no entry the
\* table had before the call is gone.
C2_OneRewardPerSubmission ==
    (TsScored /\ Len(ts_call.subs) >= 1) =>
        /\ ts_call.outcome = "returned"
        /\ Len(ts_call.result) = Len(ts_call.subs)
        /\ \A i \in DOMAIN ts_call.subs :
              /\ Cardinality({k \in DOMAIN ratings :
                                  ratings[k][1] = ts_call.subs[i].miner_hotkey}) = 1
              /\ ts_call.result[i] = RewardArg(ratings, ts_call.subs[i].miner_hotkey)
        /\ Keys(ts_call.pre) \subseteq Keys(ratings)

\* C8: a grade call leaves unchanged the Rating (mu and sigma) of every miner that
\* had a Rating before the call and has no submission in the round.
C8_AbsentRatingsUnchanged ==
    TsGraded =>
        \A hotkey \in Keys(ts_call.pre) \ TsHotkeys :
            /\ hotkey \in Keys(ratings)
            /\ Get(ratings, hotkey) = Get(ts_call.pre, hotkey)

\* a round returned, it changed the rating of a participant, and a miner rated in an
\* earlier round (its rating is no longer the default) had no submission in it
C8_Witness ==
    /\ TsGraded
    /\ ts_call.outcome = "returned"
    /\ \E hotkey \in Keys(ts_call.pre) \ TsHotkeys :
          Get(ts_call.pre, hotkey) # CreateRating
    /\ \E hotkey \in TsHotkeys \cap Keys(ts_call.pre) :
          Get(ratings, hotkey) # Get(ts_call.pre, hotkey)

\* C9: the ranks handed to the rating update order the participants of the round by
\* descending composite score (strictly higher score, strictly lower rank) and two
\* participants with equal composite score have the same rank.
C9_RanksFollowScoresTiesEqual ==
    TsScored =>
        \A j, k \in DOMAIN ts_call.groups :
            LET sj == TsScoreOf(ts_call.groups[j][1])
                sk == TsScoreOf(ts_call.groups[k][1])
            IN /\ RatLess(sk, sj) => ts_call.ranks[j] < ts_call.ranks[k]
               /\ sj = sk => ts_call.ranks[j] = ts_call.ranks[k]

\* the submissions of the last round, and their scores, in the order perm
Permuted(seq, perm) == [i \in DOMAIN seq |-> seq[perm[i]]]

\* the rank of each miner of the round, by hotkey
RankOf(groups, ranks) == {<<groups[j][1], ranks[j]>> : j \in DOMAIN groups}

TsDistinctScores ==
    /\ TsScored
    /\ \A i, j \in DOMAIN ts_call.scores :
          ts_call.scores[i] = ts_call.scores[j] => i = j

\* C10: when the composite scores of a round are pairwise distinct, update_ratings
\* called on the same rating table with any permutation of the submissions list (and
\* the scores permuted with it) gives every participant the rank the call gave it,
\* and the updates leave the rating table the call left.
C10_UpdateIgnoresSubmissionOrder ==
    TsDistinctScores =>
        \A perm \in Permutations(DOMAIN ts_call.subs) :
            LET subs == Permuted(ts_call.subs, perm)
                float_scores == Permuted(ts_call.scores, perm)
                once == UpdateRatings(ts_call.mid, subs, float_scores)
                all == RunUpdates(ts_call.mid, subs, float_scores,
                                  UpdateRuns(num_runs), 0)
            IN /\ RankOf(once.groups, once.ranks) = RankOf(ts_call.groups, ts_call.ranks)
               /\ all.kind = (IF ts_call.outcome = "returned" THEN "ok" ELSE "raised")
               /\ all.table = ratings

\* a returned round of three miners with pairwise distinct scores in which the
\* submissions are not in descending score order, and the rating table is not in
\* submission order
C10_Witness ==
    /\ TsDistinctScores
    /\ ts_call.outcome = "returned"
    /\ Len(ts_call.subs) = 3
    /\ RatLess(ts_call.scores[1], ts_call.scores[3])
    /\ RatLess(ts_call.scores[3], ts_call.scores[2])
    /\ ts_call.groups[1][1] # ts_call.subs[1].miner_hotkey
    /\ \E j \in DOMAIN ratings : ratings[j][2] # CreateRating /\ ts_call.pre # <<>>


\* C11: once more than five rounds have been run on a grader, a round applies
\* update_ratings exactly once (the three-fold update belongs to the initial phase).
C11_SingleUpdateAfterInitialPhase ==
    (TsGraded /\ ts_call.outcome = "returned" /\ ts_rounds > 6) =>
        ts_call.updates = 1


\* the entries of the rating table of the participants of the last round
TsRoundTable == SelectSeq(ratings, LAMBDA item : item[1] \in TsHotkeys)

\* C12: the logistic squash of a round is centred on the average conservative skill
\* of the participants of that round: a participant whose conservative skill equals
\* that average has the logistic argument 0 (reward exactly 0.5), and every reward is
\* the one the round's participants' ratings alone give, whatever ratings the table
\* stores for absent miners.
C12_RewardsCentredOnRoundMean ==
    (TsGraded /\ ts_call.outcome = "returned") =>
        \A i \in DOMAIN ts_call.subs :
            LET hotkey == ts_call.subs[i].miner_hotkey
                skill == ConservativeSkill(Get(ratings, hotkey))
                round_sum == SeqSum([k \in DOMAIN TsRoundTable |->
                                        ConservativeSkill(TsRoundTable[k][2])])
            IN /\ skill * Len(TsRoundTable) = round_sum => ts_call.result[i] = Zero
               /\ ts_call.result[i] = RewardArg(TsRoundTable, hotkey)


\* a match of the tournament has just been judged and rated
EloMatchPlayed == g_pc = "elo_play" /\ elo_next > 1

\* C13: every match verdict produces exactly one call of EloRating.update_ratings,
\* with score 1 for the winner or score 0.5 for a draw, and a draw between two
\* equally rated players (the first match of a tournament: both at the default
\* rating) leaves both ratings unchanged.
C13_OneStandardUpdatePerVerdict ==
    EloMatchPlayed =>
        /\ Len(elo_log) = 1
        /\ \A k \in DOMAIN elo_log : elo_log[k][3] \in {500, 1000}
        /\ (elo_next = 2 /\ elo_log[1][3] = 500) =>
               \A player \in 0 .. elo_subs - 1 :
                   GetRating(elo_players, player) = DEFAULT_RATING


\* the unordered pair of a match
PairOf(match) == {match[1], match[2]}

\* C14: the match list of a tournament of n players has NUM_ELO_ROUNDS * n(n-1)/2
\* matches, every unordered pair of distinct players occurs in it exactly
\* NUM_ELO_ROUNDS times, no player is matched against itself, and rank_elo plays these
\* matches one after the other: the match just rated is the next one of the list, and
\* scores are returned only after the last one.
C14_EveryPairPlayedEachRound ==
    g_pc \in {"elo_play", "elo_done"} =>
        /\ Len(elo_matches) = NUM_ELO_ROUNDS * ((elo_subs * (elo_subs - 1)) \div 2)
        /\ \A a, b \in 0 .. elo_subs - 1 :
              a < b => Cardinality({k \in DOMAIN elo_matches :
                                       PairOf(elo_matches[k]) = {a, b}}) = NUM_ELO_ROUNDS
        /\ \A k \in DOMAIN elo_matches : elo_matches[k][1] # elo_matches[k][2]
        /\ elo_next \in 1 .. Len(elo_matches) + 1
        /\ \A k \in DOMAIN elo_log :
              PairOf(<<elo_log[k][1], elo_log[k][2]>>) = PairOf(elo_matches[elo_next - 1])
        /\ elo_result.kind = "returned" => elo_next = Len(elo_matches) + 1

\* a tournament of three players returned its scores after all six matches, and the
\* second round was played in another order than the first
C14_Witness ==
    /\ g_pc = "elo_done"
    /\ elo_result.kind = "returned"
    /\ elo_subs = 3
    /\ elo_next = 7
    /\ SubSeq(elo_matches, 1, 3) # SubSeq(elo_matches, 4, 6)


(***************************************************************************)
(* Claims about the score combiner                                         *)
(***************************************************************************)
\* one of the two copies of the combiner has been called
Combined ==
    h_pc = "called" /\ h_call.fn \in {"_compute_overall_score", "compute_overall_score"}

\* the four static rubric fields of a score
StaticFields(score) ==
    {score.addresses_problem_in_statement, score.logical_solution,
     score.brevity_and_cleanliness_of_code, score.potential_bugs_generated}

\* the rational x lies in [0, 1]
InUnitInterval(x) == 0 <= x.n /\ x.n <= x.d

\* C15: for a rubric score with an empty checklist both copies of the combiner return
\* static / 0.8 with static = 0.30*addresses_problem + 0.25*logical_solution
\* + 0.05*brevity + 0.20*(1 - potential_bugs), and the result lies in [0, 1] whenever
\* the four rubric fields lie in [0, 1].
C15_EmptyChecklistRescaled ==
    (Combined /\ h_call.arg.dynamic_checklist_scores = <<>>) =>
        /\ h_call.out =
              Rat(30 * h_call.arg.addresses_problem_in_statement
                      + 25 * h_call.arg.logical_solution
                      + 5 * h_call.arg.brevity_and_cleanliness_of_code
                      + 20 * (One - h_call.arg.potential_bugs_generated),
                  80 * One)
        /\ StaticFields(h_call.arg) \subseteq 0 .. One => InUnitInterval(h_call.out)

\* the taogod copy was called with an empty checklist and fields in [0, 1], not all
\* equal, and returned a value strictly inside (0, 1)
C15_Witness ==
    /\ Combined
    /\ h_call.fn = "compute_overall_score"
    /\ h_call.arg.dynamic_checklist_scores = <<>>
    /\ StaticFields(h_call.arg) = {0, One \div 2, One}
    /\ 0 < h_call.out.n /\ h_call.out.n < h_call.out.d

\* C16: the composite score lies in [0, 1] for every rubric score the oracle can
\* return, with empty or non-empty checklist, also when rubric fields or checklist
\* items lie outside [0, 1].
C16_CompositeInUnitInterval ==
    (Combined /\ h_call.fn = "_compute_overall_score") => InUnitInterval(h_call.out)

\* the mean of a checklist is at most the mean of another
MeanLeq(c1, c2) == SeqSum(c1) * Len(c2) <= SeqSum(c2) * Len(c1)

\* C17: for rubric scores with a non-empty checklist and identical static fields, a
\* larger checklist mean never gives a smaller composite score.
C17_MonotoneInChecklistMean ==
    (Combined /\ h_call.fn = "_compute_overall_score"
              /\ h_call.arg.dynamic_checklist_scores # <<>>) =>
        \A checklist \in Checklists(MaxChecklist) \ {<<>>} :
            MeanLeq(h_call.arg.dynamic_checklist_scores, checklist) =>
                ~RatLess(ComputeOverallScore(
                             [h_call.arg EXCEPT !.dynamic_checklist_scores = checklist]),
                         h_call.out)

\* a score with a two-item checklist was combined and another checklist of another
\* length has a strictly larger mean
C17_Witness ==
    /\ Combined
    /\ h_call.fn = "_compute_overall_score"
    /\ Len(h_call.arg.dynamic_checklist_scores) = 2
    /\ h_call.arg.dynamic_checklist_scores[1] # h_call.arg.dynamic_checklist_scores[2]
    /\ \E checklist \in Checklists(MaxChecklist) \ {<<>>} :
          /\ Len(checklist) = 1
          /\ ~MeanLeq(checklist, h_call.arg.dynamic_checklist_scores)
          /\ RatLess(h_call.out,
                     ComputeOverallScore(
                         [h_call.arg EXCEPT !.dynamic_checklist_scores = checklist]))


(***************************************************************************)
(* Claims about exponential_decay                                          *)
(***************************************************************************)
Decayed == h_pc = "called" /\ h_call.fn = "exponential_decay"

\* the result is exactly 1: exp of the exponent 0
IsOne(result) == result.kind = "exp" /\ result.exponent = Zero

\* C18: for a positive threshold N, exponential_decay(N, 0) is 1; for every x >= N
\* (x = N included) the result is 0; and on [0, N) the result is strictly decreasing:
\* for x < y < N the exponent -x/(N-x) is strictly greater than -y/(N-y).
C18_DecayFromOneToZero ==
    Decayed =>
        /\ (h_call.arg.x = 0 /\ h_call.arg.N > 0) => IsOne(h_call.out)
        /\ h_call.arg.x >= h_call.arg.N => h_call.out.kind = "zero"
        /\ h_call.arg.x < h_call.arg.N =>
              /\ h_call.out.kind = "exp"
              /\ h_call.out.exponent = Rat(0 - h_call.arg.x, h_call.arg.N - h_call.arg.x)
              /\ \A y \in (h_call.arg.x + 1) .. (h_call.arg.N - 1) :
                    /\ ExponentialDecay(h_call.arg.N, y).kind = "exp"
                    /\ RatLess(ExponentialDecay(h_call.arg.N, y).exponent,
                               h_call.out.exponent)

\* a call strictly inside [0, N) with larger arguments left below the threshold
C18_Witness ==
    /\ Decayed
    /\ 0 < h_call.arg.x
    /\ h_call.arg.x + 2 < h_call.arg.N
    /\ h_call.out.kind = "exp"
    /\ RatLess(h_call.out.exponent, Zero)


(***************************************************************************)
(* Claims about remove_comments                                            *)
(***************************************************************************)
Stripped ==
    /\ h_pc = "called"
    /\ h_call.fn \in {"remove_comments", "grade_output.remove_comments",
                      "code_compare.remove_comments"}

\* line i of the patch is a '+++' file header: it follows a '---' line
IsFileHeaderAt(patch, i) ==
    /\ i > 1
    /\ StartsWith(patch[i - 1], <<"-", "-", "-">>)
    /\ StartsWith(patch[i], <<"+", "+", "+", " ">>)

\* C19: remove_comments outputs the '+++' file header line of a diff verbatim,
\* whatever characters ('#', trailing blanks) its path contains.
C19_FileHeaderVerbatim ==
    Stripped =>
        \A i \in DOMAIN h_call.arg :
            IsFileHeaderAt(h_call.arg, i) =>
                \E j \in DOMAIN h_call.out : h_call.out[j] = h_call.arg[i]

IsAdded(line) == StartsWith(line, <<"+">>)

NotAdded(line) == ~IsAdded(line)

\* C20: the lines of the output that do not start with '+' are the lines of the
\* input that do not start with '+', unchanged and in the same order, and every
\* added line kept in the output still starts with '+' (the output has one line
\* starting with '+' for every added line of the input that is no whole-line comment).
C20_OtherLinesVerbatim ==
    Stripped =>
        /\ SelectSeq(h_call.out, NotAdded) = SelectSeq(h_call.arg, NotAdded)
        /\ Len(SelectSeq(h_call.out, IsAdded))
              = Len(SelectSeq(h_call.arg, LAMBDA line : IsAdded(line) /\ ~IsCommentLine(line)))


(***************************************************************************)
(* Claims about a graded and aggregated round                              *)
(***************************************************************************)
Aggregated == t_pc = "graded" /\ h_pc = "called" /\ h_call.fn = "aggregate"

\* the decay result a is at least the decay result b (exp is increasing)
DecayAtLeast(a, b) ==
    \/ b.kind = "zero"
    \/ a.kind = "exp" /\ b.kind = "exp" /\ ~RatLess(a.exponent, b.exponent)

\* the final reward a is strictly above b: with positive weights, a strictly larger
\* logistic argument and a decay that is not smaller
FinalAbove(a, b) ==
    /\ a.w_eval > 0 /\ a.w_eval = b.w_eval
    /\ a.w_latency > 0 /\ a.w_latency = b.w_latency
    /\ RatLess(b.reward_arg, a.reward_arg)
    /\ DecayAtLeast(a.decay, b.decay)

\* C21: in a round of previously unrated participants with pairwise distinct
\* composite scores (0.9, 0.5, 0.1) a higher composite score gives a strictly higher
\* reward, and the final reward at W_eval = 9 and W_latency = 1 stays strictly higher
\* when the higher scorer also responded faster (latencies 10, 100, 500 s, timeout
\* 1800 s).
C21_RewardsOrderedLikeScores ==
    Aggregated =>
        /\ ts_call.outcome = "returned"
        /\ \A i, j \in DOMAIN ts_call.subs :
              RatLess(ts_call.scores[j], ts_call.scores[i]) =>
                  /\ RatLess(ts_call.result[j], ts_call.result[i])
                  /\ h_call.arg.latencies[i] < h_call.arg.latencies[j] =>
                        FinalAbove(h_call.out[i], h_call.out[j])

\* the scenario of the specification: scores 0.9, 0.5, 0.1 with latencies 10, 100,
\* 500, submitted in another order than the one the rating table ends up in
C21_Witness ==
    /\ Aggregated
    /\ ts_call.scores = <<Rat(9, 10), Rat(5, 10), Rat(1, 10)>>
    /\ h_call.arg.latencies = <<10, 100, 500>>
    /\ ts_call.pre = <<>>
    /\ FinalAbove(h_call.out[1], h_call.out[2])
    /\ FinalAbove(h_call.out[2], h_call.out[3])


\* C22: a round is applied to the rating table atomically: when grade fails (scoring
\* raises for a submission, or the rating update raises) the rating table is exactly
\* what it was before the call.
C22_FailedRoundLeavesTable ==
    (TsGraded /\ ts_call.outcome \in {"float_raised", "rate_raised"}) =>
        ratings = ts_call.pre

(***************************************************************************)
(* Claims about the rewards arrays passed to update_scores                 *)
(* (checked under SpecValidator)                                           *)
(***************************************************************************)
\* the reward the call site of an update_scores call is meant to give each uid
SiteReward(call, j) ==
    CASE call.site = "pending" -> 1000
      [] call.site = "no_open_pr" -> 0
      [] call.site = "penalty" -> NO_MINER_RESPONSE_SCORE
      [] call.site = "reward" ->
            v_iter.rewards[CHOOSE k \in DOMAIN v_iter.working :
                               v_iter.working[k] = call.uids[j]]

\* C23: every update_scores call of the validator passes a rewards array with
\* exactly one entry per uid of its uid list: 1 for a miner with a pending reward,
\* 0 for a queried miner without open PR, NO_MINER_RESPONSE_SCORE for a
\* non-responder and the computed reward for a responder.
C23_OneRewardEntryPerUid ==
    \A c \in DOMAIN score_updates :
        /\ ~score_updates[c].scalar
        /\ Len(score_updates[c].rewards) = Len(score_updates[c].uids)
        /\ \A j \in DOMAIN score_updates[c].uids :
              score_updates[c].rewards[j] = SiteReward(score_updates[c], j)

(***************************************************************************)
(* Claims about calculate_rewards of the synthetic tests                   *)
(* (checked under SpecPool)                                                *)
(***************************************************************************)
PoolReturned == p_pc = "returned"

\* the reward the response at position i earns when it is processed on its own
OwnReward(i) == SyntheticReward(ProcessResponseWrapper(tasks[i]))

\* processing the response at position i raises
ProcessingRaises(i) ==
    tasks[i].env_raises \/ tasks[i].tests_before = None \/ tasks[i].tests_after = None

\* C24: calculate_rewards returns exactly one reward per response, at the position
\* of that response, whatever the order in which the workers finished; a response
\* whose processing raises gets 0 and leaves the other responses' rewards alone.
C24_RewardsByPositionWhateverFinishOrder ==
    PoolReturned =>
        /\ DOMAIN syn_tests_arr = DOMAIN tasks
        /\ \A i \in DOMAIN tasks :
              /\ syn_tests_arr[i] = OwnReward(i)
              /\ ProcessingRaises(i) => syn_tests_arr[i] = 0

\* three responses finished in reverse order, the second raising, the others
\* earning different rewards
C24_Witness ==
    /\ PoolReturned
    /\ finish_order = <<3, 2, 1>>
    /\ ProcessingRaises(2)
    /\ ~ProcessingRaises(1)
    /\ ~ProcessingRaises(3)
    /\ syn_tests_arr[1] # syn_tests_arr[3]

(***************************************************************************)
(* Claims about llm_eval (checked under SpecLlmEval)                       *)
(***************************************************************************)
\* llm_eval was called and the oracle returned an evaluation
LlmEvaluated == 
    h_pc = "called" /\ h_call.fn = "llm_eval" /\ h_call.arg.stage = "evaluated"

\* 0.30*addresses + 0.25*logical + 0.05*brevity + 0.20*(1 - bug_risk)
\* + 0.20*mean(checklist), for a checklist that is not empty
WeightedTotal(evaluation) ==
    LET items == Len(evaluation.dynamic_checklist_scores)
    IN Rat(items * (30 * BoolInt(evaluation.addresses_problem_in_statement)
                    + 25 * BoolInt(evaluation.logical_solution)
                    + 5 * BoolInt(evaluation.brevity_and_cleanliness_of_code)
                    + 20 * (1 - BoolInt(evaluation.potential_bugs_generated)))
               + 20 * TrueItems(evaluation.dynamic_checklist_scores),
           100 * items)

\* C25: for every evaluation the oracle can return, an empty checklist included,
\* llm_eval does not raise and gives a total_score in [0, 1] in which the bug-risk
\* weight is applied as 0.20*(1 - bug_risk).
C25_LlmEvalTotalInUnitInterval ==
    LlmEvaluated =>
        /\ h_call.out.kind = "score"
        /\ InUnitInterval(h_call.out.total_score)
        /\ h_call.arg.evaluation.dynamic_checklist_scores # <<>> =>
              h_call.out.total_score = WeightedTotal(h_call.arg.evaluation)

(***************************************************************************)
(* Claims about comment markers on added lines (checked under              *)
(* SpecStripAdded)                                                         *)
(***************************************************************************)
RECURSIVE UpToHash(_)
\* the characters of a line that precede its first '#'
UpToHash(line) ==
    IF line = <<>> \/ Head(line) = "#" THEN <<>>
    ELSE <<Head(line)>> \o UpToHash(Tail(line))

\* an added line that consists only of a comment: '+', blanks, '#'
OnlyComment(line) ==
    IsAdded(line) /\ UpToHash(Tail(line)) # Tail(line)
        /\ Range(UpToHash(Tail(line))) \subseteq Whitespace

\* an added line that is kept
KeptAdded(line) == IsAdded(line) /\ ~OnlyComment(line)

\* C26: after remove_comments no added line of the output contains '#': the added
\* lines that consist only of a comment are dropped, and every other added line is
\* cut at its first '#', so no text following a '#' on an added line is left.
C26_NoCommentMarkerOnAddedLines ==
    Stripped =>
        LET outAdded == SelectSeq(h_call.out, IsAdded)
            inKept == SelectSeq(h_call.arg, KeptAdded)
        IN /\ \A j \in DOMAIN h_call.out :
                 IsAdded(h_call.out[j]) => "#" \notin Range(h_call.out[j])
           /\ Len(outAdded) = Len(inKept)
           /\ \A k \in DOMAIN outAdded :
                 RStrip(outAdded[k]) = RStrip(UpToHash(inKept[k]))

\* a patch with a whole-line comment that is dropped and an added line with an
\* inline comment that is cut
C26_Witness ==
    /\ Stripped
    /\ h_call.fn = "remove_comments"
    /\ h_call.arg = << <<"+", " ", "#">>, <<"+", "x", "#">> >>
    /\ h_call.out = << <<"+", "x">> >>

(***************************************************************************)
(* Claims about Miner.blacklist (checked under SpecBlacklist)              *)
(***************************************************************************)
BlacklistCalled == h_pc = "called" /\ h_call.fn = "blacklist"

\* the request carries a dendrite with a hotkey
HasHotkey(synapse) ==
    synapse.dendrite # None /\ synapse.dendrite[1].hotkey # None

\* the request's hotkey is registered in the metagraph
Registered(arg) ==
    arg.synapse.dendrite[1].hotkey[1] \in Range(arg.hotkeys)

\* the request's hotkey is registered and has the validator permit
HasPermit(arg) ==
    \E i \in DOMAIN arg.hotkeys :
        arg.hotkeys[i] = arg.synapse.dendrite[1].hotkey[1] /\ arg.validator_permit[i]

\* C27: blacklist returns a (bool, reason) pair for every request and never raises:
\* (True, 'Missing dendrite or hotkey') without dendrite or hotkey,
\* (True, 'Unrecognized hotkey') for an unregistered hotkey when
\* allow_non_registered is false, (True, 'Non-validator hotkey') for a registered
\* hotkey without permit when force_validator_permit is set, and
\* (False, 'Hotkey recognized!') for a registered hotkey otherwise.
C27_BlacklistAlwaysReturnsPair ==
    BlacklistCalled =>
        LET arg == h_call.arg
            out == h_call.out
        IN /\ out.kind = "returned"
           /\ ~HasHotkey(arg.synapse) =>
                 out.blacklisted /\ out.reason = "Missing dendrite or hotkey"
           /\ (HasHotkey(arg.synapse) /\ ~Registered(arg)
                  /\ ~arg.config.allow_non_registered) =>
                 out.blacklisted /\ out.reason = "Unrecognized hotkey"
           /\ (HasHotkey(arg.synapse) /\ Registered(arg)
                  /\ arg.config.force_validator_permit /\ ~HasPermit(arg)) =>
                 out.blacklisted /\ out.reason = "Non-validator hotkey"
           /\ (HasHotkey(arg.synapse) /\ Registered(arg)
                  /\ (arg.config.force_validator_permit => HasPermit(arg))) =>
                 ~out.blacklisted /\ out.reason = "Hotkey recognized!"

(***************************************************************************)
(* Claims about rejected verdicts and the sum of the Elo ratings           *)
(* (checked under SpecGrader)                                              *)
(***************************************************************************)
\* the step judges the next match and the oracle's verdict has none, or more than
\* one, of model_1_victor, model_2_victor and is_draw true
InvalidVerdictStep ==
    /\ g_pc = "elo_play"
    /\ elo_next <= Len(elo_matches)
    /\ elo_output' # <<>>
    /\ TrueCount(elo_output'[1]) # 1

\* C28: when the pairwise oracle returns a verdict in which none, or more than one,
\* of the three flags is true, generate_win_loss_for_problem raises and the Elo
\* ratings are exactly what they were before that match.
C28_InvalidVerdictRaisesRatingsKept ==
    [][InvalidVerdictStep =>
          /\ elo_result'.kind = "raised"
          /\ g_pc' = "elo_done"
          /\ elo_log' = <<>>
          /\ elo_players' = elo_players]_vars

\* a verdict with is_draw and a victor was rejected after matches had been rated
C28_Witness ==
    /\ g_pc = "elo_done"
    /\ elo_result.kind = "raised"
    /\ elo_output # <<>>
    /\ elo_output[1].is_draw
    /\ TrueCount(elo_output[1]) = 2
    /\ elo_next > 1
    /\ \E player \in DOMAIN elo_players :
          elo_players[player] # DEFAULT_RATING * 1000

\* the sum of the ratings of the players 0 .. n - 1
RECURSIVE RatingSum(_, _)
RatingSum(players, n) ==
    IF n = 0 THEN 0 ELSE GetRating(players, n - 1) + RatingSum(players, n - 1)

\* the players of the matches rated so far
PlayedSoFar ==
    UNION {PairOf(elo_matches[k]) : k \in 1 .. (elo_next - 1)}

\* C29: rating updates are zero-sum: at every point of a tournament, and in the
\* scores rank_elo returns, the ratings of all players sum to the default rating
\* times the number of players, and a player that has played no match has the
\* default rating.
C29_RatingsZeroSum ==
    g_pc \in {"elo_play", "elo_done"} =>
        /\ RatingSum(elo_players, elo_subs) = DEFAULT_RATING * 1000 * elo_subs
        /\ \A player \in (0 .. elo_subs - 1) \ PlayedSoFar :
              GetRating(elo_players, player) = DEFAULT_RATING * 1000
        /\ elo_result.kind = "returned" =>
              SeqSum(elo_result.scores) = DEFAULT_RATING * 1000 * elo_subs

\* a tournament of three players has returned scores that are not all equal
C29_Witness ==
    /\ g_pc = "elo_done"
    /\ elo_result.kind = "returned"
    /\ elo_subs = 3
    /\ \E i, j \in DOMAIN elo_result.scores : elo_result.scores[i] # elo_result.scores[j]

(***************************************************************************)
(* Claims about compare_test_results (checked under SpecCompare)           *)
(***************************************************************************)
Compared == h_pc = "called" /\ h_call.fn = "compare_test_results"

CompareLists ==
    {"PASS_TO_PASS", "PASS_TO_FAIL", "FAIL_TO_PASS", "FAIL_TO_FAIL", "NEW_PASS", "NEW_FAIL"}

\* the list a test belongs to by its status before (or its absence) and after
ListFor(before, after, test) ==
    IF test \notin DOMAIN before
    THEN IF after[test] = "passed" THEN "NEW_PASS" ELSE "NEW_FAIL"
    ELSE IF before[test] = "passed"
    THEN IF after[test] = "passed" THEN "PASS_TO_PASS" ELSE "PASS_TO_FAIL"
    ELSE IF after[test] = "passed" THEN "FAIL_TO_PASS" ELSE "FAIL_TO_FAIL"

\* C30: the six lists are pairwise disjoint; every test of the after map occurs in
\* exactly one of them, the one given by its before status (passed, failed or
\* absent) and its after status, and a test absent from the after map occurs in none.
C30_SixDisjointListsCoverAfter ==
    Compared =>
        LET before == h_call.arg.before
            after == h_call.arg.after
            out == h_call.out
        IN /\ DOMAIN out = CompareLists
           /\ \A l1, l2 \in CompareLists : l1 # l2 => out[l1] \cap out[l2] = {}
           /\ \A test \in DOMAIN after :
                 \A l \in CompareLists : test \in out[l] <=> l = ListFor(before, after, test)
           /\ \A l \in CompareLists : out[l] \subseteq DOMAIN after

\* three tests: one failed before and passes after, one is new and fails, one
\* passed before and is absent after
C30_Witness ==
    /\ Compared
    /\ h_call.out.FAIL_TO_PASS = {1}
    /\ h_call.out.NEW_FAIL = {2}
    /\ 3 \in DOMAIN h_call.arg.before
    /\ 3 \notin DOMAIN h_call.arg.after

==========================================================================
